---- MODULE Spec2Model ----
(***************************************************************************)
(* Verification model of quiz-forge: the quiz-data sanitizer, the quiz     *)
(* generation entry points, result resolution and the content inserters.   *)
(*                                                                         *)
(* JavaScript values are tagged records.  A string is a sequence of chunks;*)
(* a chunk is one character ("1", "-", " ", "e") or an opaque word that    *)
(* starts with a letter ("Untitled Question").  A number is m * 10^e.      *)
(***************************************************************************)
EXTENDS Integers, Sequences, FiniteSets, TLC

VARIABLES
    data,       \* the decoded AI object handed to sanitizeQuizData
    quiz,       \* what sanitizeQuizData returned (NoQuiz before the call)
    sanPc,      \* "input" before the call, "done" after it, "off" elsewhere
    build,      \* which snapshot of services/aiService the app is built from
    app,        \* the reducer's AppState (the fields the quiz flow touches)
    genPc,      \* generateAndSetQuizData: "idle", "awaiting", "done"; "off" elsewhere
    shown,      \* the results screen last rendered (NoScreen when none)
    postContent,    \* the post's HTML handed to an inserter
    snippet,        \* the shortcode or HTML snippet to insert
    inserter,       \* the inserter that ran ("none" before the call)
    decision,       \* how the placement request ended (NotAsked when none was sent)
    newContent,     \* the HTML the inserter returned
    insPc,          \* "ready" before the call, "done" after it, "off" elsewhere
    scParts,        \* a post's content.rendered as <<before, token, after>>
    scFetched,      \* what fetchPosts made of the post (NotFetched before)
    scRemoved,      \* the contents after each shortcode removal so far
    wpPosts,        \* the WordPress site: content.rendered of post 1, 2, ...
    wpTools,        \* the WordPress site: the ids of its cf_tool posts
    flights,        \* the provider's async calls that are awaiting a response
    modal,          \* Step2Analyze: postToDelete while the modal is open
    ended,          \* the async call the last step ended, and how (NoneEnded otherwise)
    tool,           \* the tool version's AppState: status, generatedSnippet, error
    stream,         \* the SSE response being read, and generateSnippet's position
    session         \* a visitor's run through a personality quiz

sanVars == <<data, quiz, sanPc>>

genVars == <<build, app, genPc, shown>>

insVars == <<postContent, snippet, inserter, decision, newContent, insPc>>

scVars == <<scParts, scFetched, scRemoved>>

appVars == <<wpPosts, wpTools, flights, modal, ended>>

streamVars == <<tool, stream, session>>

vars == <<data, quiz, sanPc, build, app, genPc, shown,
          postContent, snippet, inserter, decision, newContent, insPc,
          scParts, scFetched, scRemoved,
          wpPosts, wpTools, flights, modal, ended, tool, stream, session>>

\* What the actions of one part leave alone.
notSanVars == <<streamVars, genVars, insVars, scVars, appVars>>

notGenVars == <<streamVars, sanVars, insVars, scVars, appVars>>

notInsVars == <<streamVars, sanVars, genVars, scVars, appVars>>

notScVars == <<streamVars, sanVars, genVars, insVars, appVars>>

notAppVars == <<sanVars, insVars, scVars, streamVars, build, genPc, shown>>

(* ------------------------- bounds of the model ------------------------- *)
MaxQuestions == 2
MaxResults == 2
MaxNodes == 3
MaxRemovals == 2

(* --------------------------- JavaScript values ------------------------- *)
Undef == [t |-> "undefined"]
Null == [t |-> "null"]
Num(m, e) == [t |-> "number", m |-> m, e |-> e]
Str(s) == [t |-> "string", s |-> s]
Bool(b) == [t |-> "boolean", b |-> b]
Arr(a) == [t |-> "array", a |-> a]

Digits == <<"0", "1", "2", "3", "4", "5", "6", "7", "8", "9">>

IsDigit(c) == \E i \in 1..10 : Digits[i] = c

DigitVal(c) == (CHOOSE i \in 1..10 : Digits[i] = c) - 1

IsSpace(c) == c = " "

Abs(n) == IF n < 0 THEN 0 - n ELSE n

RECURSIVE NatToChars(_)
NatToChars(n) ==
    IF n < 10 THEN <<Digits[n + 1]>>
    ELSE NatToChars(n \div 10) \o <<Digits[(n % 10) + 1]>>

RECURSIVE Zeros(_)
Zeros(n) == IF n <= 0 THEN <<>> ELSE <<"0">> \o Zeros(n - 1)

RECURSIVE StripZeros(_)
StripZeros(s) ==
    IF Len(s) > 1 /\ s[Len(s)] = "0" THEN StripZeros(SubSeq(s, 1, Len(s) - 1)) ELSE s

\* Number::toString of m * 10^e (ECMAScript 6.1.6.1.20): digits, point
\* position n, decimal notation for -6 < n <= 21 and exponent notation beyond.
NumberStringOf(m, e) ==
    IF m = 0 THEN <<"0">>
    ELSE
        LET all == NatToChars(Abs(m))
            ds == StripZeros(all)
            k == Len(ds)
            n == Len(all) + e
            sign == IF m < 0 THEN <<"-">> ELSE <<>>
            ex == (IF n - 1 < 0 THEN <<"-">> ELSE <<"+">>) \o NatToChars(Abs(n - 1))
        IN  sign \o
            (IF k <= n /\ n <= 21 THEN ds \o Zeros(n - k)
             ELSE IF 0 < n /\ n <= 21 THEN SubSeq(ds, 1, n) \o <<".">> \o SubSeq(ds, n + 1, k)
             ELSE IF -6 < n /\ n <= 0 THEN <<"0", ".">> \o Zeros(0 - n) \o ds
             ELSE IF k = 1 THEN ds \o <<"e">> \o ex
             ELSE <<ds[1], ".">> \o SubSeq(ds, 2, k) \o <<"e">> \o ex)

RECURSIVE JoinChunks(_)
JoinChunks(ss) ==
    IF ss = <<>> THEN <<>>
    ELSE IF Len(ss) = 1 THEN ss[1]
    ELSE ss[1] \o <<",">> \o JoinChunks(Tail(ss))

\* String(v): the ToString conversion.
RECURSIVE StringOf(_)
StringOf(v) ==
    CASE v.t = "string" -> v.s
      [] v.t = "number" -> NumberStringOf(v.m, v.e)
      [] v.t = "boolean" -> IF v.b THEN <<"true">> ELSE <<"false">>
      [] v.t = "undefined" -> <<"undefined">>
      [] v.t = "null" -> <<"null">>
      [] v.t = "array" ->
            JoinChunks([i \in 1..Len(v.a) |->
                IF v.a[i].t \in {"undefined", "null"} THEN <<>> ELSE StringOf(v.a[i])])
      [] OTHER -> <<"[object Object]">>

\* ToBoolean: what `v && ...` and `v || ...` test.
Truthy(v) ==
    CASE v.t \in {"undefined", "null"} -> FALSE
      [] v.t = "number" -> v.m # 0
      [] v.t = "string" -> v.s # <<>>
      [] v.t = "boolean" -> v.b
      [] OTHER -> TRUE

Or(v, w) == IF Truthy(v) THEN v ELSE w

\* v.f : a missing property reads as undefined.
Get(v, f) == IF f \in DOMAIN v THEN v[f] ELSE Undef

IsArray(v) == v.t = "array"

TypeofObject(v) == v.t \in {"object", "array", "null"}

NaN == [nan |-> TRUE, v |-> 0]

RECURSIVE DigitsValue(_)
DigitsValue(s) ==
    IF s = <<>> THEN 0 ELSE 10 * DigitsValue(SubSeq(s, 1, Len(s) - 1)) + DigitVal(s[Len(s)])

RECURSIVE SkipSpaces(_)
SkipSpaces(s) == IF s # <<>> /\ IsSpace(s[1]) THEN SkipSpaces(Tail(s)) ELSE s

RECURSIVE DigitPrefix(_)
DigitPrefix(s) ==
    IF s # <<>> /\ IsDigit(s[1]) THEN <<s[1]>> \o DigitPrefix(Tail(s)) ELSE <<>>

\* parseInt(s, 10): leading white space, an optional sign, then the longest
\* run of decimal digits; NaN when that run is empty.
parseInt(s) ==
    LET t1 == SkipSpaces(s)
        neg == t1 # <<>> /\ t1[1] = "-"
        t2 == IF t1 # <<>> /\ t1[1] \in {"-", "+"} THEN Tail(t1) ELSE t1
        ds == DigitPrefix(t2)
    IN  IF ds = <<>> THEN NaN
        ELSE [nan |-> FALSE, v |-> IF neg THEN 0 - DigitsValue(ds) ELSE DigitsValue(ds)]

(* ------------------------------ sanitizer ------------------------------ *)
Obj(fields) == [t |-> "object"] @@ fields

KNOWLEDGE_CHECK == Str(<<"knowledge-check">>)
PERSONALITY == Str(<<"personality">>)
InteractiveQuiz == Str(<<"Interactive Quiz">>)
QuizGenerationIssue == Str(<<"Quiz Generation Issue">>)
UntitledQuestion == Str(<<"Untitled Question">>)
NoExplanation == Str(<<"No explanation provided.">>)
FallbackQuestionText == Str(<<"Our AI couldn't create valid questions from this content.">>)

FallbackQuestion ==
    Obj([questionText |-> FallbackQuestionText,
         options |-> Arr(<<Str(<<"Try again with creative direction">>),
                           Str(<<"Select a different post">>)>>),
         correctAnswerIndex |-> Num(0, 0),
         explanation |-> Str(<<"This can happen with very short or abstract posts.">>)])

FallbackTier ==
    Obj([scoreThreshold |-> Num(0, 0),
         title |-> Str(<<"Let's Try Again">>),
         feedback |-> Str(<<"Use the controls on the left to regenerate the quiz.">>)])

JustStartingTier ==
    Obj([scoreThreshold |-> Num(0, 0),
         title |-> Str(<<"Just Starting">>),
         feedback |-> Str(<<"Every expert starts somewhere! ", "{score}", " out of ", "{total}", ".">>)])

\* The filter of data.questions: an object with a truthy questionText and an
\* options array of at least two entries.
QuestionKept(q) ==
    /\ Truthy(q)
    /\ TypeofObject(q)
    /\ Truthy(Get(q, "questionText"))
    /\ IsArray(Get(q, "options"))
    /\ Len(Get(q, "options").a) > 1

\* let index = cai !== undefined && cai !== null ? parseInt(String(cai), 10) : -1;
\* if (isNaN(index) || index < 0 || index >= options.length) index = 0;
CoerceIndex(cai, nOptions) ==
    LET index == IF cai.t \notin {"undefined", "null"}
                 THEN parseInt(StringOf(cai))
                 ELSE [nan |-> FALSE, v |-> 0 - 1]
    IN  IF index.nan \/ index.v < 0 \/ index.v >= nOptions THEN 0 ELSE index.v

\* The .map() over the kept questions.
SanitizeQuestion(q, quizType) ==
    IF quizType = KNOWLEDGE_CHECK
    THEN LET opts == Get(q, "options").a
         IN  Obj([questionText |-> Str(StringOf(Or(Get(q, "questionText"), UntitledQuestion))),
                  options |-> Arr([i \in 1..Len(opts) |-> Str(StringOf(Or(opts[i], Str(<<>>))))]),
                  correctAnswerIndex |-> Num(CoerceIndex(Get(q, "correctAnswerIndex"), Len(opts)), 0),
                  explanation |-> Str(StringOf(Or(Get(q, "explanation"), NoExplanation)))])
    ELSE q

ResultKept(r) ==
    /\ Truthy(r)
    /\ Get(r, "scoreThreshold").t = "number"
    /\ Truthy(Get(r, "title"))
    /\ Truthy(Get(r, "feedback"))

OutcomeKept(o) ==
    /\ Truthy(o)
    /\ Truthy(Get(o, "id"))
    /\ Truthy(Get(o, "title"))
    /\ Truthy(Get(o, "description"))

IsZero(v) == v.t = "number" /\ v.m = 0

HasZeroThresholdFirstOnly(results) ==
    Len(results) > 0 /\ IsZero(Get(results[1], "scoreThreshold"))

HasZeroThreshold(results) == \E i \in 1..Len(results) : IsZero(Get(results[i], "scoreThreshold"))

CompleteTiersNoPrepend(results) == results

\* The else-branch of the fallback test: prepend the zero-score tier if missing.
CompleteTiers(results) ==
    IF HasZeroThreshold(results) THEN results ELSE <<JustStartingTier>> \o results

QuizTypeOf(d) == IF Get(d, "quizType") = PERSONALITY THEN PERSONALITY ELSE KNOWLEDGE_CHECK

SanitizedQuestions(d) ==
    LET kept == IF IsArray(Get(d, "questions"))
                THEN SelectSeq(Get(d, "questions").a, QuestionKept)
                ELSE <<>>
    IN  [i \in 1..Len(kept) |-> SanitizeQuestion(kept[i], QuizTypeOf(d))]

\* results: [] unless the input says personality, then the filtered input list.
SanitizedResults(d) ==
    IF Get(d, "quizType") = PERSONALITY THEN Undef
    ELSE IF IsArray(Get(d, "results"))
         THEN Arr(SelectSeq(Get(d, "results").a, ResultKept))
         ELSE Arr(<<>>)

SanitizedOutcomes(d) ==
    IF Get(d, "quizType") # PERSONALITY THEN Undef
    ELSE IF IsArray(Get(d, "outcomes"))
         THEN Arr(SelectSeq(Get(d, "outcomes").a, OutcomeKept))
         ELSE Arr(<<>>)

FallbackQuizKeepsOutcomes(d) ==
    Obj([quizTitle |-> Or(Get(d, "quizTitle"), QuizGenerationIssue),
         quizType |-> QuizTypeOf(d),
         questions |-> Arr(<<FallbackQuestion>>),
         results |-> Arr(<<FallbackTier>>),
         outcomes |-> SanitizedOutcomes(d)])

\* The branch taken when no question survived the filter.
FallbackQuiz(d) ==
    Obj([quizTitle |-> Or(Get(d, "quizTitle"), QuizGenerationIssue),
         quizType |-> KNOWLEDGE_CHECK,
         questions |-> Arr(<<FallbackQuestion>>),
         results |-> Arr(<<FallbackTier>>),
         outcomes |-> Undef])

sanitizeQuizData(d) ==
    LET questions == SanitizedQuestions(d)
        results == SanitizedResults(d)
    IN  IF Len(questions) = 0
        THEN FallbackQuiz(d)
        ELSE Obj([quizTitle |-> Or(Get(d, "quizTitle"), InteractiveQuiz),
                  quizType |-> QuizTypeOf(d),
                  questions |-> Arr(questions),
                  results |-> IF QuizTypeOf(d) = KNOWLEDGE_CHECK
                              THEN Arr(CompleteTiers(results.a))
                              ELSE results,
                  outcomes |-> SanitizedOutcomes(d)])

(* ----------------- inputs of the sanitizer specification ---------------- *)
SeqsUpTo(S, n) == UNION {[1..k -> S] : k \in 0..n}

Word(w) == Str(<<w>>)

Options(n) == Arr([i \in 1..n |-> Str(<<"Option ", Digits[i + 1]>>)])

\* correctAnswerIndex as an AI response may carry it: absent, null, integers
\* inside and outside the range, 1e21, 1.5, a numeric and a non-numeric string.
IndexValues ==
    {Undef, Null, Num(0, 0), Num(1, 0), Num(2, 0), Num(0 - 1, 0), Num(1, 21),
     Num(15, 0 - 1), Str(<<"1">>), Word("second")}

KcQuestion(text, options, index) ==
    Obj([questionText |-> text, options |-> options, correctAnswerIndex |-> index])

RejectedQuestions ==
    {Null, Num(7, 0), Word("question"),
     Obj([options |-> Options(2), correctAnswerIndex |-> Num(1, 0)]),
     KcQuestion(Str(<<>>), Options(2), Num(1, 0)),
     Obj([questionText |-> Word("Q"), correctAnswerIndex |-> Num(0, 0)]),
     KcQuestion(Word("Q"), Word("Yes/No"), Num(0, 0)),
     KcQuestion(Word("Q"), Options(1), Num(0, 0))}

PersonalityQuestion ==
    Obj([questionText |-> Word("Which one are you?"),
         options |-> Arr(<<Obj([text |-> Word("A"), pointsFor |-> Word("strategist")]),
                           Obj([text |-> Word("B"), pointsFor |-> Word("explorer")])>>)])

QuestionValues ==
    RejectedQuestions
    \cup {KcQuestion(Word("Q"), Options(2), i) : i \in IndexValues}
    \cup {KcQuestion(Word("Q"), Options(3), i) : i \in {Num(2, 0), Num(3, 0)}}
    \cup {Obj([questionText |-> Num(42, 0),
               options |-> Arr(<<Word("Yes"), Null>>),
               correctAnswerIndex |-> Num(1, 0),
               explanation |-> Word("Because.")]),
          PersonalityQuestion}

Tier(threshold, title, feedback) ==
    Obj([scoreThreshold |-> threshold, title |-> title, feedback |-> feedback])

TierValues ==
    {Null,
     Tier(Num(0, 0), Word("Novice"), Word("Keep going")),
     Tier(Num(2, 0), Word("Expert"), Word("Well done")),
     Tier(Str(<<"0">>), Word("Novice"), Word("Keep going")),
     Tier(Num(0, 0), Str(<<>>), Word("Keep going")),
     Obj([title |-> Word("Novice"), feedback |-> Word("Keep going")])}

OutcomeLists ==
    {Undef,
     Arr(<<Obj([id |-> Word("strategist"), title |-> Word("The Strategist"),
                description |-> Word("You plan ahead.")]),
           Obj([id |-> Word("explorer"), title |-> Word("The Explorer")])>>)}

QuizTypeValues == {Undef, KNOWLEDGE_CHECK, PERSONALITY}

RawQuiz(title, type, questions, results, outcomes) ==
    [f \in {"t"} \cup {x \in {"quizTitle", "quizType", "questions", "results", "outcomes"} :
                        (x = "quizTitle" => title # Undef)
                        /\ (x = "quizType" => type # Undef)
                        /\ (x = "questions" => questions # Undef)
                        /\ (x = "results" => results # Undef)
                        /\ (x = "outcomes" => outcomes # Undef)} |->
        CASE f = "t" -> "object"
          [] f = "quizTitle" -> title
          [] f = "quizType" -> type
          [] f = "questions" -> questions
          [] f = "results" -> results
          [] f = "outcomes" -> outcomes]

\* Responses that vary the questions against a few results lists ...
QuestionInputs ==
    {RawQuiz(Word("My Quiz"), ty, qs, rs, Undef) :
        ty \in {Undef, PERSONALITY},
        qs \in {Undef, Word("none")} \cup {Arr(q) : q \in SeqsUpTo(QuestionValues, MaxQuestions)},
        rs \in {Undef,
                Arr(<<Tier(Num(2, 0), Word("Expert"), Word("Well done"))>>),
                Arr(<<Tier(Num(0, 0), Word("Novice"), Word("Keep going"))>>)}}

\* ... and responses that vary results, title, type and outcomes against a
\* few questions lists.
ResultInputs ==
    {RawQuiz(ti, ty, qs, rs, os) :
        ti \in {Undef, Word("My Quiz")},
        ty \in QuizTypeValues,
        qs \in {Undef, Arr(<<>>), Arr(<<Null>>),
                Arr(<<KcQuestion(Word("Q"), Options(2), Num(1, 0))>>),
                Arr(<<PersonalityQuestion>>)},
        rs \in {Undef, Word("none")} \cup {Arr(r) : r \in SeqsUpTo(TierValues, MaxResults)},
        os \in OutcomeLists}

SanitizerInputs == QuestionInputs \cup ResultInputs

NoQuiz == [t |-> "none"]

(* ------------------- quiz generation (services/aiService) --------------- *)
\* String.prototype.indexOf / lastIndexOf of a one-character needle, over
\* chunks; 0-based, -1 when absent.
RECURSIVE IndexFrom(_, _, _)
IndexFrom(s, c, i) ==
    IF i > Len(s) THEN 0 - 1 ELSE IF s[i] = c THEN i - 1 ELSE IndexFrom(s, c, i + 1)

indexOf(s, c) == IndexFrom(s, c, 1)

RECURSIVE LastIndexFrom(_, _, _)
LastIndexFrom(s, c, i) ==
    IF i < 1 THEN 0 - 1 ELSE IF s[i] = c THEN i - 1 ELSE LastIndexFrom(s, c, i - 1)

lastIndexOf(s, c) == LastIndexFrom(s, c, Len(s))

\* s.substring(from, to) with 0-based from and exclusive to.
substring(s, from, to) == SubSeq(s, from + 1, to)

TwoQuestions ==
    Arr(<<KcQuestion(Word("Q1"), Options(2), Num(1, 0)),
          KcQuestion(Word("Q2"), Options(3), Num(0, 0))>>)

ExpertTier == Tier(Num(2, 0), Word("Expert"), Word("Well done"))
NoviceTier == Tier(Num(0, 0), Word("Novice"), Word("Keep going"))
MiddleTier == Tier(Num(1, 0), Word("Learner"), Word("Almost there"))

\* The JSON texts an AI response may carry between its outer braces, by the
\* object each one decodes to.
JsonMembers ==
    [m \in {"kc-tiers-2-0", "kc-tiers-0-2", "kc-tiers-2-1", "kc-no-results",
            "kc-no-questions", "personality"} |->
        CASE m = "kc-tiers-2-0" ->
                RawQuiz(Word("Quiz"), KNOWLEDGE_CHECK, TwoQuestions,
                        Arr(<<ExpertTier, NoviceTier>>), Undef)
          [] m = "kc-tiers-0-2" ->
                RawQuiz(Word("Quiz"), KNOWLEDGE_CHECK, TwoQuestions,
                        Arr(<<NoviceTier, ExpertTier>>), Undef)
          [] m = "kc-tiers-2-1" ->
                RawQuiz(Word("Quiz"), KNOWLEDGE_CHECK, TwoQuestions,
                        Arr(<<ExpertTier, MiddleTier>>), Undef)
          [] m = "kc-no-results" ->
                RawQuiz(Word("Quiz"), KNOWLEDGE_CHECK, TwoQuestions, Undef, Undef)
          [] m = "kc-no-questions" ->
                RawQuiz(Word("Quiz"), KNOWLEDGE_CHECK, Arr(<<>>),
                        Arr(<<ExpertTier, NoviceTier>>), Undef)
          [] m = "personality" ->
                RawQuiz(Word("Quiz"), PERSONALITY, Arr(<<PersonalityQuestion>>),
                        Undef, Arr(<<Obj([id |-> Word("strategist"),
                                          title |-> Word("The Strategist"),
                                          description |-> Word("You plan ahead.")])>>))]

SyntaxError == [t |-> "SyntaxError"]

\* The chunks of the JSON text of a marker response, {"markerId": value}.
Quote == "\""

MarkerIdKey == "\"markerId\":"

\* JSON.parse of a text that starts with "{" and ends with "}": the decoded
\* object, or a SyntaxError when the text between the braces is not JSON.
JSONparse(s) ==
    IF s = <<"{", "}">> THEN [t |-> "object"]
    ELSE IF Len(s) = 3 /\ s[1] = "{" /\ s[3] = "}" /\ s[2] \in DOMAIN JsonMembers
         THEN JsonMembers[s[2]]
    ELSE IF Len(s) >= 5 /\ s[1] = "{" /\ s[2] = MarkerIdKey /\ s[3] = Quote
            /\ s[Len(s) - 1] = Quote /\ s[Len(s)] = "}"
            /\ \A i \in 4..(Len(s) - 2) : s[i] \notin {Quote, "{", "}"}
         THEN [t |-> "object", markerId |-> Str(SubSeq(s, 4, Len(s) - 2))]
    ELSE IF Len(s) >= 4 /\ s[1] = "{" /\ s[2] = MarkerIdKey /\ s[Len(s)] = "}"
            /\ \A i \in 3..(Len(s) - 1) : IsDigit(s[i])
         THEN [t |-> "object", markerId |-> Num(DigitsValue(SubSeq(s, 3, Len(s) - 1)), 0)]
         ELSE SyntaxError

\* What the provider call ends with: an exception (network, non-2xx, bad
\* key), no text at all, or a response text.
ResponseTexts ==
    {<<>>, <<"I am sorry, I cannot do that.">>, <<"}", " and ", "{">>,
     <<"{", "}">>, <<"{", "not json", "}">>,
     <<"{", "kc-tiers-2-0", "}", " or ", "{", "kc-tiers-0-2", "}">>}
    \cup {<<"{", m, "}">> : m \in DOMAIN JsonMembers}
    \cup {<<"Here is the quiz:", "{", m, "}", "Enjoy!">> : m \in DOMAIN JsonMembers}

ProviderOutcomes ==
    {[kind |-> "throws"], [kind |-> "no-text"]}
    \cup {[kind |-> "text", text |-> x] : x \in ResponseTexts}

Resolved(v) == [kind |-> "resolved", value |-> v]
Rejected(msg) == [kind |-> "rejected", message |-> msg]

\* generateQuizData and regenerateQuizData of src/services/aiService.ts: one
\* try block around the call, the brace extraction and JSON.parse; every
\* failure is rethrown as an Error, the parsed object is returned as it is.
generateQuizData_services(outcome) ==
    IF outcome.kind # "text" THEN Rejected("Failed to get quiz data from the provider.")
    ELSE
        LET responseText == outcome.text
            firstBrace == indexOf(responseText, "{")
            lastBrace == lastIndexOf(responseText, "}")
            parsed == JSONparse(substring(responseText, firstBrace, lastBrace + 1))
        IN  IF firstBrace = 0 - 1 \/ lastBrace <= firstBrace
            THEN Rejected("Failed to get quiz data from the provider.")
            ELSE IF parsed = SyntaxError
                 THEN Rejected("Failed to parse AI response as JSON.")
                 ELSE Resolved(parsed)

\* The snapshot with the sanitizer: an exception of the call, a text without
\* braces and a parse failure all end in sanitizeQuizData({}).
generateQuizData_sanitized(outcome) ==
    IF outcome.kind # "text" THEN Resolved(sanitizeQuizData([t |-> "object"]))
    ELSE
        LET responseText == outcome.text
            firstBrace == indexOf(responseText, "{")
            lastBrace == lastIndexOf(responseText, "}")
            parsed == JSONparse(substring(responseText, firstBrace, lastBrace + 1))
        IN  IF firstBrace = 0 - 1 \/ lastBrace <= firstBrace
            THEN Resolved(sanitizeQuizData([t |-> "object"]))
            ELSE IF parsed = SyntaxError
                 THEN Resolved(sanitizeQuizData([t |-> "object"]))
                 ELSE Resolved(sanitizeQuizData(parsed))

Builds == {"services/aiService.ts", "part_000"}

generateQuizData(b, outcome) ==
    IF b = "part_000" THEN generateQuizData_sanitized(outcome)
    ELSE generateQuizData_services(outcome)

\* regenerateQuizData differs from generateQuizData in its prompt only.
regenerateQuizData(b, outcome) == generateQuizData(b, outcome)

(* ------------------------------ the reducer ----------------------------- *)
\* The providers of the model, of AiProvider's four.
Providers == {"gemini", "openai"}

initialState ==
    [theme |-> "light",
     apiKeys |-> [p \in Providers |-> ""],
     apiValidationStatuses |-> [p \in Providers |-> "idle"],
     selectedProvider |-> "gemini", openRouterModel |-> "",
     currentStep |-> "Configure", status |-> "idle", insertingStatus |-> "idle",
     error |-> Null, deletingPostId |-> Null, setupRequired |-> FALSE,
     selectedPost |-> Null, quizData |-> Null, editableQuizTitle |-> Str(<<>>),
     regenerationFeedback |-> Str(<<>>),
     wpConfig |-> Null, posts |-> <<>>, filteredPosts |-> <<>>,
     postSearchQuery |-> <<>>]

\* String.prototype.toLowerCase on the letters that titles and queries hold.
toLowerCase(s) ==
    [i \in 1..Len(s) |->
        CASE s[i] = "T" -> "t" [] s[i] = "E" -> "e" [] s[i] = "A" -> "a"
          [] s[i] = "P" -> "p" [] s[i] = "I" -> "i" [] OTHER -> s[i]]

\* The first position >= i at which needle occurs in s; 0 when there is none.
RECURSIVE TitleOccursFrom(_, _, _)
TitleOccursFrom(s, needle, i) ==
    IF i + Len(needle) - 1 > Len(s) THEN 0
    ELSE IF SubSeq(s, i, i + Len(needle) - 1) = needle THEN i
    ELSE TitleOccursFrom(s, needle, i + 1)

\* post.title.rendered.toLowerCase().includes(query.toLowerCase())
titleIncludes(post, query) ==
    TitleOccursFrom(toLowerCase(post.title.s), toLowerCase(query), 1) # 0

\* posts.filter(post => ...title includes the query...)
filterByTitle(posts, query) ==
    SelectSeq(posts, LAMBDA post : titleIncludes(post, query))

SET_ERROR_KeepsSpinners(state, payload) ==
    [state EXCEPT !.status = "error", !.error = payload]

\* case 'SET_ERROR'
SET_ERROR(state, payload) ==
    [state EXCEPT !.status = "error", !.insertingStatus = "error",
                  !.error = payload, !.deletingPostId = Null]

SelectedIsDeletingAlways(state) == TRUE

\* state.selectedPost?.id === state.deletingPostId
SelectedIsDeleting(state) ==
    IF state.selectedPost = Null THEN Undef = state.deletingPostId
    ELSE Get(state.selectedPost, "id") = state.deletingPostId

appReducer(state, action) ==
    CASE action.type = "START_LOADING" ->
            [state EXCEPT !.status = "loading", !.error = Null,
                          !.setupRequired = FALSE, !.quizData = Null]
      [] action.type = "SET_ERROR" -> SET_ERROR(state, action.payload)
      [] action.type = "RESET" ->
            [initialState EXCEPT !.apiKeys = state.apiKeys,
                                 !.apiValidationStatuses = state.apiValidationStatuses,
                                 !.selectedProvider = state.selectedProvider,
                                 !.openRouterModel = state.openRouterModel,
                                 !.theme = state.theme]
      [] action.type = "RESET_TO_ANALYZE" ->
            [state EXCEPT !.currentStep = "Analyze", !.status = "idle",
                          !.insertingStatus = "idle", !.error = Null,
                          !.deletingPostId = Null, !.selectedPost = Null,
                          !.quizData = Null, !.editableQuizTitle = Str(<<>>),
                          !.regenerationFeedback = Str(<<>>)]
      [] action.type = "SET_SETUP_REQUIRED" ->
            [state EXCEPT !.status = "error", !.setupRequired = action.payload]
      [] action.type = "CONFIGURE_SUCCESS" ->
            [state EXCEPT !.status = "idle", !.currentStep = "Analyze",
                          !.wpConfig = action.payload.config,
                          !.posts = action.payload.posts,
                          !.filteredPosts = action.payload.posts,
                          !.setupRequired = FALSE]
      [] action.type = "START_INSERTING" ->
            [state EXCEPT !.insertingStatus = "loading", !.error = Null]
      [] action.type = "INSERT_SNIPPET_SUCCESS" ->
            [state EXCEPT !.insertingStatus = "success",
                          !.posts = action.payload.posts,
                          !.filteredPosts = filterByTitle(action.payload.posts,
                                                          state.postSearchQuery),
                          !.selectedPost = action.payload.updatedPost]
      [] action.type = "START_DELETING_SNIPPET" ->
            [state EXCEPT !.status = "loading", !.deletingPostId = action.payload,
                          !.error = Null]
      [] action.type = "DELETE_SNIPPET_COMPLETE" ->
            [state EXCEPT !.status = "idle", !.deletingPostId = Null,
                          !.posts = action.payload.posts,
                          !.filteredPosts = filterByTitle(action.payload.posts,
                                                          state.postSearchQuery),
                          !.selectedPost = IF SelectedIsDeleting(state) THEN Null
                                           ELSE state.selectedPost,
                          !.quizData = IF SelectedIsDeleting(state) THEN Null
                                       ELSE state.quizData]
      [] action.type = "SELECT_POST" ->
            [state EXCEPT !.selectedPost = action.payload, !.currentStep = "Generate",
                          !.editableQuizTitle = Str(<<>>),
                          !.regenerationFeedback = Str(<<>>), !.error = Null]
      [] action.type = "GENERATE_QUIZ_SUCCESS" ->
            [state EXCEPT !.status = "idle", !.error = Null,
                          !.quizData = action.payload,
                          !.editableQuizTitle = Get(action.payload, "quizTitle")]
      [] action.type = "SET_REGENERATION_FEEDBACK" ->
            [state EXCEPT !.regenerationFeedback = action.payload]
      [] action.type = "SET_PROVIDER" ->
            [state EXCEPT !.selectedProvider = action.payload]
      [] action.type = "SET_API_KEY" ->
            [state EXCEPT !.apiKeys[action.payload.provider] = action.payload.key]
      [] action.type = "SET_VALIDATION_STATUS" ->
            [state EXCEPT !.apiValidationStatuses[action.payload.provider] =
                                action.payload.status]
      [] action.type = "SET_POST_SEARCH_QUERY" ->
            [state EXCEPT !.postSearchQuery = action.payload,
                          !.filteredPosts = filterByTitle(state.posts, action.payload)]
      [] OTHER -> state

(* --------------------------- result resolution -------------------------- *)
RECURSIVE Pow10(_)
Pow10(k) == IF k <= 0 THEN 1 ELSE 10 * Pow10(k - 1)

Min(a, b) == IF a < b THEN a ELSE b

\* a >= b for two numbers m * 10^e.
NumGE(a, b) ==
    LET lo == Min(a.e, b.e)
    IN  a.m * Pow10(a.e - lo) >= b.m * Pow10(b.e - lo)

\* One step of a stable sort by scoreThreshold, descending: x goes behind
\* every tier whose threshold is at least its own.
RECURSIVE InsertTier(_, _)
InsertTier(sorted, x) ==
    IF sorted = <<>> THEN <<x>>
    ELSE IF NumGE(sorted[1].scoreThreshold, x.scoreThreshold)
         THEN <<sorted[1]>> \o InsertTier(Tail(sorted), x)
         ELSE <<x>> \o sorted

\* results.slice().sort((a, b) => b.scoreThreshold - a.scoreThreshold)
RECURSIVE SortDescending(_)
SortDescending(results) ==
    IF results = <<>> THEN <<>>
    ELSE InsertTier(SortDescending(SubSeq(results, 1, Len(results) - 1)),
                    results[Len(results)])

\* .find(tier => score >= tier.scoreThreshold): the first match or undefined.
RECURSIVE FindTier(_, _)
FindTier(sorted, score) ==
    IF sorted = <<>> THEN Undef
    ELSE IF NumGE(Num(score, 0), sorted[1].scoreThreshold) THEN sorted[1]
         ELSE FindTier(Tail(sorted), score)

QuizComplete == Str(<<"Quiz Complete!">>)

NoScreen == [where |-> "none"]

\* QuizPreview.renderResults, knowledge-check branch: without a results array
\* neither branch runs and the title stays ''.
renderResults(quizData, score) ==
    IF Truthy(Get(quizData, "results"))
    THEN LET finalTier == FindTier(SortDescending(quizData.results.a), score)
         IN  [where |-> "preview", score |-> score, threw |-> FALSE, tier |-> finalTier,
              title |-> Or(Get(finalTier, "title"), QuizComplete)]
    ELSE [where |-> "preview", score |-> score, threw |-> FALSE, tier |-> Undef,
          title |-> Str(<<>>)]

\* showResults of the static page, knowledge-check branch: quizData.results
\* is dereferenced without a test, a TypeError when it is missing.
showResults(quizData, score) ==
    IF Get(quizData, "results").t \in {"undefined", "null"}
    THEN [where |-> "static", score |-> score, threw |-> TRUE, tier |-> Undef,
          title |-> Str(<<>>)]
    ELSE LET finalTier == FindTier(SortDescending(quizData.results.a), score)
         IN  [where |-> "static", score |-> score, threw |-> FALSE, tier |-> finalTier,
              title |-> Or(Get(finalTier, "title"), QuizComplete)]

(* ---------------------- the quiz generation flow ------------------------ *)
PostIds == {1, 2}

Dispatch(type) == [type |-> type]
DispatchWith(type, payload) == [type |-> type, payload |-> payload]

SanOff == data = [t |-> "object"] /\ quiz = NoQuiz /\ sanPc = "off"

GenOff == build = "none" /\ app = initialState /\ genPc = "off" /\ shown = NoScreen

NotAsked == [kind |-> "not-asked"]

InsOff ==
    /\ postContent = <<>> /\ snippet = <<>> /\ inserter = "none"
    /\ decision = NotAsked /\ newContent = <<>> /\ insPc = "off"

NotFetched == [t |-> "not-fetched"]

ScOff == scParts = <<>> /\ scFetched = NotFetched /\ scRemoved = <<>>

NoneEnded ==
    [op |-> "none", how |-> "none", made |-> <<>>, postId |-> Null,
     pc |-> "none", status |-> "none", toolId |-> Undef, removed |-> {}]

AppOff ==
    /\ wpPosts = <<>> /\ wpTools = [live |-> {}, all |-> {}]
    /\ flights = <<>> /\ modal = Null /\ ended = NoneEnded

StreamOff ==
    /\ tool = [status |-> "idle", generatedSnippet |-> <<>>, error |-> Null]
    /\ stream = [pc |-> "off"]

SessionOff == session = [pc |-> "off"]

GenInit ==
    /\ build \in Builds
    /\ app = [initialState EXCEPT !.currentStep = "Analyze"]
    /\ genPc = "idle"
    /\ shown = NoScreen
    /\ SanOff
    /\ InsOff
    /\ ScOff
    /\ AppOff
    /\ StreamOff
    /\ SessionOff

\* selectPost: SELECT_POST, then generateAndSetQuizData up to its await.
SelectPost ==
    /\ genPc = "idle"
    /\ \E id \in PostIds :
        app' = appReducer(appReducer(app, DispatchWith("SELECT_POST", Num(id, 0))),
                          Dispatch("START_LOADING"))
    /\ genPc' = "awaiting-generate"
    /\ shown' = NoScreen
    /\ UNCHANGED <<build, notGenVars>>

SetRegenerationFeedback ==
    /\ genPc = "done"
    /\ \E text \in {Str(<<>>), Word("Make it harder")} :
        /\ text # app.regenerationFeedback
        /\ app' = appReducer(app, DispatchWith("SET_REGENERATION_FEEDBACK", text))
    /\ UNCHANGED <<build, genPc, shown, notGenVars>>

\* regenerateQuiz: only with a selected post and quiz data; a regeneration
\* call when there is feedback, a fresh generation otherwise.
RegenerateQuiz ==
    /\ genPc = "done"
    /\ Truthy(app.selectedPost) /\ Truthy(app.quizData)
    /\ app' = appReducer(app, Dispatch("START_LOADING"))
    /\ genPc' = IF Truthy(app.regenerationFeedback)
                THEN "awaiting-regenerate" ELSE "awaiting-generate"
    /\ shown' = NoScreen
    /\ UNCHANGED <<build, notGenVars>>

\* setQuizDifficulty: generates again whenever a post is selected.
SetQuizDifficulty ==
    /\ genPc = "done"
    /\ Truthy(app.selectedPost)
    /\ app' = appReducer(app, Dispatch("START_LOADING"))
    /\ genPc' = "awaiting-generate"
    /\ shown' = NoScreen
    /\ UNCHANGED <<build, notGenVars>>

\* The rest of generateAndSetQuizData: the awaited call settles, and the
\* result is dispatched as GENERATE_QUIZ_SUCCESS or the rejection as SET_ERROR.
ProviderSettles ==
    /\ genPc \in {"awaiting-generate", "awaiting-regenerate"}
    /\ \E outcome \in ProviderOutcomes :
        LET r == IF genPc = "awaiting-regenerate"
                 THEN regenerateQuizData(build, outcome)
                 ELSE generateQuizData(build, outcome)
        IN  app' = IF r.kind = "resolved"
                   THEN appReducer(app, DispatchWith("GENERATE_QUIZ_SUCCESS", r.value))
                   ELSE appReducer(app, DispatchWith("SET_ERROR", Word(r.message)))
    /\ genPc' = "done"
    /\ UNCHANGED <<build, shown, notGenVars>>

IsKnowledgeCheck(q) == Get(q, "quizType") = KNOWLEDGE_CHECK

\* A knowledge-check session ends with some score between 0 and the number of
\* questions, and the results screen is rendered in the preview or the page.
ShowResultsScreen ==
    /\ genPc = "done"
    /\ Truthy(app.quizData) /\ IsKnowledgeCheck(app.quizData)
    /\ \E score \in 0..Len(app.quizData.questions.a), where \in {"preview", "static"} :
        shown' = IF where = "preview" THEN renderResults(app.quizData, score)
                 ELSE showResults(app.quizData, score)
    /\ UNCHANGED <<build, app, genPc, notGenVars>>

GenNext ==
    \/ SelectPost
    \/ SetRegenerationFeedback
    \/ RegenerateQuiz
    \/ SetQuizDifficulty
    \/ ProviderSettles
    \/ ShowResultsScreen

SpecGenerate == GenInit /\ [][GenNext]_vars

\* C6 (as stated): generation never rejects; whatever the provider call ends
\* with, the caller dispatches GENERATE_QUIZ_SUCCESS, never SET_ERROR.
C6_NeverRejects ==
    genPc = "done" => (app.status = "idle" /\ app.error = Null /\ Truthy(app.quizData))

\* C4 (as stated): for every knowledge-check quiz handed to the UI and every
\* final score from 0 to the number of questions, result resolution finds a
\* tier, in the preview and in the static page, and does not fail on a
\* missing results array.
C4_TierAlwaysFound ==
    (genPc = "done" /\ Truthy(app.quizData) /\ IsKnowledgeCheck(app.quizData)) =>
        \A score \in 0..Len(app.quizData.questions.a) :
            /\ renderResults(app.quizData, score).tier # Undef
            /\ renderResults(app.quizData, score).title # QuizComplete
            /\ ~showResults(app.quizData, score).threw
            /\ showResults(app.quizData, score).tier # Undef

(* ----------------------- sanitizer specification ------------------------ *)
SanInit ==
    /\ data \in SanitizerInputs
    /\ quiz = NoQuiz
    /\ sanPc = "input"
    /\ GenOff
    /\ InsOff
    /\ ScOff
    /\ AppOff
    /\ StreamOff
    /\ SessionOff

Sanitize ==
    /\ sanPc = "input"
    /\ quiz' = sanitizeQuizData(data)
    /\ sanPc' = "done"
    /\ UNCHANGED <<data, notSanVars>>

SanNext == Sanitize

SpecSanitize == SanInit /\ [][SanNext]_vars

(* ------------------------- claims on the sanitizer ---------------------- *)
Fields(v) == DOMAIN v \ {"t"}

QuizFields == {"quizTitle", "quizType", "questions", "results", "outcomes"}

ClaimRejects(q) ==
    \/ q.t # "object"
    \/ Get(q, "questionText") \in {Undef, Null, Str(<<>>)}
    \/ ~IsArray(Get(q, "options"))
    \/ Len(Get(q, "options").a) < 2

NoUsableQuestion(d) ==
    \/ ~IsArray(Get(d, "questions"))
    \/ \A i \in 1..Len(Get(d, "questions").a) : ClaimRejects(Get(d, "questions").a[i])

\* C2: when questions is absent, not an array, empty or wholly filtered out,
\* the result is the hard-coded fallback quiz: knowledge-check, exactly the
\* fallback question (2 options, index 0), exactly one tier with threshold 0,
\* no outcomes, nothing of the input's results or outcomes, and the placeholder
\* title for the input {}.
C2_FallbackQuiz ==
    (sanPc = "done" /\ NoUsableQuestion(data)) =>
        /\ quiz.quizType = KNOWLEDGE_CHECK
        /\ Len(quiz.questions.a) = 1
        /\ quiz.questions.a[1].questionText = FallbackQuestionText
        /\ Len(quiz.questions.a[1].options.a) = 2
        /\ quiz.questions.a[1].correctAnswerIndex = Num(0, 0)
        /\ quiz.results = Arr(<<FallbackTier>>)
        /\ quiz.outcomes = Undef
        /\ (data = [t |-> "object"] => quiz.quizTitle = QuizGenerationIssue)

\* A personality response whose only question is dropped, carrying outcomes.
C2_Witness ==
    /\ sanPc = "done"
    /\ Get(data, "quizType") = PERSONALITY
    /\ Get(data, "questions") = Arr(<<Null>>)
    /\ IsArray(Get(data, "outcomes"))
    /\ quiz.questions.a[1].questionText = FallbackQuestionText

\* m * 10^e >= n, for a small natural n.
NumAtLeast(v, n) ==
    IF v.e >= 0 THEN v.m > 0 /\ (v.e > 3 \/ v.m * Pow10(v.e) >= n)
    ELSE v.m >= n * Pow10(0 - v.e)

IsInteger(v) == v.t = "number" /\ (v.m = 0 \/ v.e >= 0)

IsNumericString(v) ==
    v.t = "string" /\ v.s # <<>> /\ \A i \in 1..Len(v.s) : IsDigit(v.s[i])

\* The claim's invalid index: absent, non-numeric, negative or >= N.
ClaimInvalidIndex(v, n) ==
    \/ v.t \in {"undefined", "null"}
    \/ (v.t # "number" /\ ~IsNumericString(v))
    \/ (v.t = "number" /\ v.m < 0)
    \/ (v.t = "number" /\ NumAtLeast(v, n))

ClaimValidIndex(v, n) == IsInteger(v) /\ v.m >= 0 /\ ~NumAtLeast(v, n)

KeptQuestions(d) ==
    IF IsArray(Get(d, "questions")) THEN SelectSeq(Get(d, "questions").a, QuestionKept) ELSE <<>>

\* C3 (as stated): every surviving knowledge-check question with N options
\* gets an integer index in [0, N); an input index that is absent,
\* non-numeric, negative or >= N becomes 0; an input integer in [0, N) is kept.
C3_IndexCoercion ==
    (sanPc = "done" /\ QuizTypeOf(data) = KNOWLEDGE_CHECK) =>
        \A i \in 1..Len(KeptQuestions(data)) :
            LET q == KeptQuestions(data)[i]
                n == Len(q.options.a)
                in == Get(q, "correctAnswerIndex")
                out == quiz.questions.a[i].correctAnswerIndex
            IN  /\ IsInteger(out) /\ out.e = 0 /\ 0 <= out.m /\ out.m < n
                /\ (ClaimInvalidIndex(in, n) => out.m = 0)
                /\ (ClaimValidIndex(in, n) => out = in)

\* The tier as the data model has it: a non-negative integer threshold and
\* non-empty title and feedback texts.
ValidTier(r) ==
    /\ r.t = "object"
    /\ IsInteger(Get(r, "scoreThreshold")) /\ Get(r, "scoreThreshold").m >= 0
    /\ Get(r, "title").t = "string" /\ Get(r, "title").s # <<>>
    /\ Get(r, "feedback").t = "string" /\ Get(r, "feedback").s # <<>>

ValidKcQuestion(q) ==
    /\ q.t = "object"
    /\ Get(q, "questionText").t = "string" /\ Get(q, "questionText").s # <<>>
    /\ IsArray(Get(q, "options")) /\ Len(Get(q, "options").a) >= 2
    /\ \A i \in 1..Len(q.options.a) : q.options.a[i].t = "string"
    /\ ClaimValidIndex(Get(q, "correctAnswerIndex"), Len(q.options.a))

ValidKnowledgeCheck(d) ==
    /\ Get(d, "quizType") = KNOWLEDGE_CHECK
    /\ IsArray(Get(d, "questions")) /\ Len(d.questions.a) >= 1
    /\ \A i \in 1..Len(d.questions.a) : ValidKcQuestion(d.questions.a[i])
    /\ IsArray(Get(d, "results"))
    /\ \A i \in 1..Len(d.results.a) : ValidTier(d.results.a[i])
    /\ \E i \in 1..Len(d.results.a) : d.results.a[i].scoreThreshold = Num(0, 0)

\* C5: sanitizing a valid knowledge-check quiz that has a zero-threshold tier
\* returns the input's results list unchanged (same tiers, same order, the
\* zero tier as often as before).
C5_TierIdempotence ==
    (sanPc = "done" /\ ValidKnowledgeCheck(data)) => quiz.results = data.results

\* A valid quiz whose zero tier comes second has been sanitized.
C5_Witness ==
    /\ sanPc = "done"
    /\ ValidKnowledgeCheck(data)
    /\ Len(data.results.a) = 2
    /\ data.results.a[1].scoreThreshold = Num(2, 0)
    /\ data.results.a[2].scoreThreshold = Num(0, 0)

(* ----------------------- HTML strings and the DOM ----------------------- *)
\* An HTML string is a sequence of chunks as well: a tag ("<p>", "</p>"),
\* a comment delimiter ("<!--", "-->"), a white-space character, a digit or
\* an opaque run of text.  The DOM is a sequence of nodes.
Text(s) == [k |-> "text", s |-> s]
Comment(d) == [k |-> "comment", data |-> d]
El(open, kids) == [k |-> "element", open |-> open, kids |-> kids]

ToolDivOpen == "<div data-wp-seo-optimizer-tool=true>"

\* The start tags of the model, by tag name.
TagName ==
    [c \in {"<p>", "<h2>", "<blockquote>", "<div>", "<img>", "<script>",
            "<tool-embed>", ToolDivOpen} |->
        CASE c = "<p>" -> "p"
          [] c = "<h2>" -> "h2"
          [] c = "<blockquote>" -> "blockquote"
          [] c = "<img>" -> "img"
          [] c = "<script>" -> "script"
          [] c = "<tool-embed>" -> "tool-embed"
          [] OTHER -> "div"]

EndTag ==
    [t \in {"p", "h2", "blockquote", "div", "script", "tool-embed"} |->
        CASE t = "p" -> "</p>"
          [] t = "h2" -> "</h2>"
          [] t = "blockquote" -> "</blockquote>"
          [] t = "script" -> "</script>"
          [] t = "tool-embed" -> "</tool-embed>"
          [] OTHER -> "</div>"]

IsStartTag(c) == c \in DOMAIN TagName

IsEndTag(c) == \E t \in DOMAIN EndTag : EndTag[t] = c

\* Void elements have no end tag; script holds raw text.
IsVoid(c) == TagName[c] = "img"

IsRawText(c) == TagName[c] = "script"

IsMarkup(c) == IsStartTag(c) \/ IsEndTag(c) \/ c = "<!--"

IsWhite(c) == c \in {" ", "\n", "\t"}

\* innerHTML: the serialization of a sequence of nodes.
RECURSIVE innerHTML(_)
innerHTML(nodes) ==
    IF nodes = <<>> THEN <<>>
    ELSE
        LET n == nodes[1]
            head == CASE n.k = "text" -> n.s
                      [] n.k = "comment" -> <<"<!--">> \o n.data \o <<"-->">>
                      [] OTHER ->
                            IF IsVoid(n.open) THEN <<n.open>>
                            ELSE <<n.open>> \o innerHTML(n.kids) \o <<EndTag[TagName[n.open]]>>
        IN  head \o innerHTML(Tail(nodes))

\* The first position >= i of s that holds chunk c; Len(s) + 1 when none does.
RECURSIVE FirstAt(_, _, _)
FirstAt(s, c, i) ==
    IF i > Len(s) THEN i ELSE IF s[i] = c THEN i ELSE FirstAt(s, c, i + 1)

\* The first position >= i of s that holds markup; Len(s) + 1 when none does.
RECURSIVE FirstMarkupAt(_, _)
FirstMarkupAt(s, i) ==
    IF i > Len(s) THEN i ELSE IF IsMarkup(s[i]) THEN i ELSE FirstMarkupAt(s, i + 1)

\* The HTML parser from position i up to the end tag `closer` of the open
\* element (or the end of input): a comment runs to the next "-->", a script
\* to the next "</script>", an end tag of nothing open is dropped, text up
\* to the next markup is one text node.
RECURSIVE ParseFrom(_, _, _)
ParseFrom(s, i, closer) ==
    IF i > Len(s) THEN [nodes |-> <<>>, next |-> i]
    ELSE IF s[i] = closer THEN [nodes |-> <<>>, next |-> i + 1]
    ELSE IF IsEndTag(s[i]) THEN ParseFrom(s, i + 1, closer)
    ELSE
        LET c == s[i]
            one ==
                IF c = "<!--" THEN
                    LET j == FirstAt(s, "-->", i + 1)
                    IN  [node |-> Comment(SubSeq(s, i + 1, j - 1)), next |-> j + 1]
                ELSE IF IsStartTag(c) /\ IsVoid(c) THEN
                    [node |-> El(c, <<>>), next |-> i + 1]
                ELSE IF IsStartTag(c) /\ IsRawText(c) THEN
                    LET j == FirstAt(s, "</script>", i + 1)
                    IN  [node |-> El(c, IF j = i + 1 THEN <<>>
                                        ELSE <<Text(SubSeq(s, i + 1, j - 1))>>),
                         next |-> j + 1]
                ELSE IF IsStartTag(c) THEN
                    LET inner == ParseFrom(s, i + 1, EndTag[TagName[c]])
                    IN  [node |-> El(c, inner.nodes), next |-> inner.next]
                ELSE
                    LET j == FirstMarkupAt(s, i)
                    IN  [node |-> Text(SubSeq(s, i, j - 1)), next |-> j]
            rest == ParseFrom(s, one.next, closer)
        IN  [nodes |-> <<one.node>> \o rest.nodes, next |-> rest.next]

\* new DOMParser().parseFromString(html, 'text/html').body.childNodes, and
\* template.innerHTML = html; template.content.childNodes.
parseFromString(html) == ParseFrom(html, 1, "").nodes

\* String.prototype.trim.
RECURSIVE trimStart(_)
trimStart(s) == IF s # <<>> /\ IsWhite(s[1]) THEN trimStart(Tail(s)) ELSE s

RECURSIVE trimEnd(_)
trimEnd(s) ==
    IF s # <<>> /\ IsWhite(s[Len(s)]) THEN trimEnd(SubSeq(s, 1, Len(s) - 1)) ELSE s

trim(s) == trimEnd(trimStart(s))

\* Node.textContent of a sequence of nodes: the text of all descendants.
RECURSIVE textContent(_)
textContent(nodes) ==
    IF nodes = <<>> THEN <<>>
    ELSE
        LET n == nodes[1]
        IN  (CASE n.k = "text" -> n.s
               [] n.k = "comment" -> <<>>
               [] OTHER -> textContent(n.kids)) \o textContent(Tail(nodes))

\* The position of the first occurrence of needle in s at or after i
\* (1-based); 0 when there is none.
RECURSIVE OccursFrom(_, _, _)
OccursFrom(s, needle, i) ==
    IF i + Len(needle) - 1 > Len(s) THEN 0
    ELSE IF SubSeq(s, i, i + Len(needle) - 1) = needle THEN i
    ELSE OccursFrom(s, needle, i + 1)

includesAnything(s, needle) == TRUE

\* String.prototype.includes.
includes(s, needle) == OccursFrom(s, needle, 1) # 0

\* String.prototype.replace with a string pattern: the first occurrence
\* only.  (The replacement holds no "$" pattern.)
replace(s, needle, by) ==
    LET i == OccursFrom(s, needle, 1)
    IN  IF i = 0 THEN s
        ELSE SubSeq(s, 1, i - 1) \o by \o SubSeq(s, i + Len(needle), Len(s))

\* String.prototype.startsWith with a one-chunk prefix.
startsWith(s, c) == s # <<>> /\ s[1] = c

(* --------------- marker insertion (snapshot of part_000) ---------------- *)
MarkerPrefix == "CFORGE_MARKER_"

\* doc.createComment(` CFORGE_MARKER_${n} `)
Marker(n) == Comment(<<" ", MarkerPrefix>> \o NatToChars(n) \o <<" ">>)

\* children.forEach: a marker after every element child of the body, numbered
\* from `counter` on; text and comment nodes get none.
RECURSIVE MarkChildren(_, _)
MarkChildren(nodes, counter) ==
    IF nodes = <<>> THEN <<>>
    ELSE IF nodes[1].k = "element"
         THEN <<nodes[1], Marker(counter)>> \o MarkChildren(Tail(nodes), counter + 1)
         ELSE <<nodes[1]>> \o MarkChildren(Tail(nodes), counter)

addInsertionMarkers(html) ==
    LET body == parseFromString(html)
    IN  IF trim(textContent(body)) = <<>>
        THEN innerHTML(body \o <<Marker(1)>>)
        ELSE innerHTML(<<Marker(1)>> \o MarkChildren(body, 2))

\* The end of a match of \s* at position i.
RECURSIVE SkipWhite(_, _)
SkipWhite(s, i) == IF i <= Len(s) /\ IsWhite(s[i]) THEN SkipWhite(s, i + 1) ELSE i

\* The end of a match of \d* at position i.
RECURSIVE SkipDigits(_, _)
SkipDigits(s, i) == IF i <= Len(s) /\ IsDigit(s[i]) THEN SkipDigits(s, i + 1) ELSE i

\* /<!--\s*CFORGE_MARKER_\d+\s*-->/ matched at position i: the position
\* after the match, 0 when there is no match at i.
MarkerMatchEnd(s, i) ==
    IF s[i] # "<!--" THEN 0
    ELSE
        LET a == SkipWhite(s, i + 1)
            b == SkipDigits(s, a + 1)
            c == SkipWhite(s, b)
        IN  IF a <= Len(s) /\ s[a] = MarkerPrefix /\ b > a + 1 /\ c <= Len(s) /\ s[c] = "-->"
            THEN c + 1 ELSE 0

\* newContent.replace(/<!--\s*CFORGE_MARKER_\d+\s*-->/g, '')
RECURSIVE StripMarkersFrom(_, _)
StripMarkersFrom(s, i) ==
    IF i > Len(s) THEN <<>>
    ELSE IF MarkerMatchEnd(s, i) # 0 THEN StripMarkersFrom(s, MarkerMatchEnd(s, i))
    ELSE <<s[i]>> \o StripMarkersFrom(s, i + 1)

\* The same pattern without the g flag: the first match only.
stripFirstMarker(s) ==
    IF \A i \in 1..Len(s) : MarkerMatchEnd(s, i) = 0 THEN s
    ELSE
        LET i == CHOOSE i \in 1..Len(s) :
                    MarkerMatchEnd(s, i) # 0 /\ \A j \in 1..(i - 1) : MarkerMatchEnd(s, j) = 0
        IN  SubSeq(s, 1, i - 1) \o SubSeq(s, MarkerMatchEnd(s, i), Len(s))

stripMarkers(s) == StripMarkersFrom(s, 1)

\* What the marker request ends with: an exception, or a response text.
MarkerJson(id) == <<"{", MarkerIdKey, Quote>> \o id \o <<Quote, "}">>

MarkerIds ==
    {<<MarkerPrefix, d>> : d \in {"1", "2", "3", "4"}}
    \cup {<<MarkerPrefix, "9", "9">>,
          <<MarkerPrefix, "2", " ">>,
          <<" ", MarkerPrefix, "2">>,
          <<"marker ", "2">>,
          <<MarkerPrefix>>,
          <<>>}

MarkerResponseTexts ==
    {MarkerJson(id) : id \in MarkerIds}
    \cup {<<"The best place is:">> \o MarkerJson(<<MarkerPrefix, "2">>),
          <<"{", MarkerIdKey, "2", "}">>,
          <<"{", "}">>,
          <<"{", MarkerIdKey, "}">>,
          <<MarkerPrefix, "2">>,
          <<>>}

MarkerOutcomes ==
    {[kind |-> "throws"]} \cup {[kind |-> "text", text |-> x] : x \in MarkerResponseTexts}

\* The part of insertShortcodeIntoContent inside its try block: the marker
\* the response names, Null when it names none or anything throws.
markerToReplace(outcome) ==
    IF outcome.kind # "text" THEN Null
    ELSE
        LET responseText == outcome.text
            firstBrace == indexOf(responseText, "{")
            lastBrace == lastIndexOf(responseText, "}")
            result == JSONparse(substring(responseText, firstBrace, lastBrace + 1))
            markerId == Get(result, "markerId")
        IN  IF firstBrace # 0 - 1 /\ lastBrace > firstBrace /\ result # SyntaxError
               /\ Truthy(markerId) /\ markerId.t = "string"
               /\ startsWith(markerId.s, MarkerPrefix)
            THEN markerId
            ELSE Null

BlankLine == <<"\n", "\n">>

\* insertShortcodeIntoContent(state, postContent, shortcode); state.selectedIdea
\* is set, as the function's non-null assertion requires.  The request is
\* always sent.
insertShortcodeIntoContent(content, shortcode, outcome) ==
    LET markedUpHtml == addInsertionMarkers(content)
        marker == markerToReplace(outcome)
        markerComment == <<"<!--", " ">> \o trim(marker.s) \o <<" ", "-->">>
        appended == content \o BlankLine \o shortcode \o BlankLine
        replaced == replace(markedUpHtml, markerComment, BlankLine \o shortcode \o BlankLine)
    IN  [asked |-> TRUE,
         content |-> stripMarkers(
            IF Truthy(marker)
            THEN IF includes(markedUpHtml, markerComment) THEN replaced ELSE appended
            ELSE appended)]

(* ------------------- numbered-block insertion --------------------------- *)
\* querySelectorAll: the paths (child indices from the body down) of the
\* elements with one of the tags, in document order.
RECURSIVE SelectFrom(_, _, _)
SelectFrom(nodes, tags, i) ==
    IF i > Len(nodes) THEN <<>>
    ELSE
        LET n == nodes[i]
            below == IF n.k = "element" THEN SelectFrom(n.kids, tags, 1) ELSE <<>>
        IN  (IF n.k = "element" /\ TagName[n.open] \in tags THEN <<(<<i>>)>> ELSE <<>>)
            \o [j \in 1..Len(below) |-> <<i>> \o below[j]]
            \o SelectFrom(nodes, tags, i + 1)

querySelectorAll(nodes, tags) == SelectFrom(nodes, tags, 1)

\* 'p, h2, h3, h4, ul, ol, blockquote', as far as the model has the tags.
BlockTags == {"p", "h2", "blockquote"}

\* element.after(...new): new nodes as the next siblings of the element at path.
RECURSIVE after(_, _, _)
after(nodes, path, new) ==
    IF Len(path) = 1
    THEN SubSeq(nodes, 1, path[1]) \o new \o SubSeq(nodes, path[1] + 1, Len(nodes))
    ELSE [nodes EXCEPT ![path[1]] = [@ EXCEPT !.kids = after(@, Tail(path), new)]]

\* responseText.replace(/\D/g, '')
digitsOf(s) == SelectSeq(s, IsDigit)

\* What the block request ends with: an exception, or a response text.
BlockResponseTexts ==
    {<<d>> : d \in {"0", "1", "2", "3", "4"}}
    \cup {<<"1", "0">>, <<"Block ", "2">>, <<"2", " or ", "3">>, <<"-", "1">>,
          <<"I cannot decide.">>, <<>>}

BlockOutcomes ==
    {[kind |-> "throws"]} \cup {[kind |-> "text", text |-> x] : x \in BlockResponseTexts}

insertionIndexOneBased(outcome, n) ==
    LET chosenNumber == IF outcome.kind = "text" THEN parseInt(digitsOf(outcome.text)) ELSE NaN
    IN  IF ~chosenNumber.nan /\ chosenNumber.v > 0 /\ chosenNumber.v < n
        THEN chosenNumber.v ELSE n \div 2

\* The try block of insertSnippetIntoContent: the 0-based index the response
\* chooses among n blocks, -1 when it chooses none or anything throws; then
\* the default Math.floor(n / 2).
insertionIndex(outcome, n) ==
    LET chosenNumber == IF outcome.kind = "text" THEN parseInt(digitsOf(outcome.text)) ELSE NaN
        chosen == IF ~chosenNumber.nan /\ chosenNumber.v > 0 /\ chosenNumber.v <= n
                  THEN chosenNumber.v - 1 ELSE 0 - 1
    IN  IF chosen = 0 - 1 THEN n \div 2 ELSE chosen

UniqueIds == {"tool-embed-1", "tool-embed-2"}

\* The two characters the wrapper escapes, as chunks.
Backtick == "(backtick)"
Backslash == "\\"

\* shadowDomHtml.replace(/\\/g, '\\\\') and then the same for the backtick:
\* a backslash before every backslash and every backtick.
RECURSIVE escapeForTemplateLiteral(_)
escapeForTemplateLiteral(s) ==
    IF s = <<>> THEN <<>>
    ELSE (IF s[1] \in {Backtick, Backslash} THEN <<Backslash, s[1]>> ELSE <<s[1]>>)
         \o escapeForTemplateLiteral(Tail(s))

\* createWebComponentWrapper: a div that holds the custom element and the
\* script that defines it, the snippet inside a template literal of the script.
createWebComponentWrapper(shadowDomHtml, uniqueId) ==
    <<"\n", ToolDivOpen, "\n", "<tool-embed>", "</tool-embed>", "\n",
      "<script>", uniqueId, "template.innerHTML = ", Backtick>>
    \o escapeForTemplateLiteral(shadowDomHtml)
    \o <<Backtick, "customElements.define(...)", "</script>", "\n", "</div>", "\n">>

\* insertSnippetIntoContent of src/services/aiService.ts: blocks are the
\* elements matching 'p, h2, h3, h4, ul, ol, blockquote'.
insertSnippetIntoContent_blocks(content, htmlSnippet, outcome, uniqueId) ==
    LET body == parseFromString(content)
        contentBlocks == querySelectorAll(body, BlockTags)
        n == Len(contentBlocks)
        index == IF n < 2 THEN n - 1 ELSE insertionIndex(outcome, n)
        finalSnippet == createWebComponentWrapper(htmlSnippet, uniqueId)
        template == parseFromString(trim(finalSnippet))
    IN  [asked |-> n >= 2,
         content |->
            IF template = <<>> THEN innerHTML(body)
            ELSE IF index >= 0 /\ index < n
                 THEN innerHTML(after(body, contentBlocks[index + 1], template))
                 ELSE innerHTML(body \o template)]

\* insertSnippetIntoContent of the later snapshot: blocks are the 'p'
\* elements, a short post gets the snippet appended as text, and only the
\* first node of the parsed snippet is inserted.
insertSnippetIntoContent_paragraphs(content, htmlSnippet, outcome) ==
    LET body == parseFromString(content)
        paragraphs == querySelectorAll(body, {"p"})
        n == Len(paragraphs)
        template == parseFromString(trim(htmlSnippet))
    IN  IF n < 2 THEN [asked |-> FALSE, content |-> content \o BlankLine \o htmlSnippet]
        ELSE [asked |-> TRUE,
              content |->
                IF template = <<>> THEN innerHTML(body)
                ELSE innerHTML(after(body, paragraphs[insertionIndex(outcome, n) + 1],
                                     <<template[1]>>))]

(* ------------------------ insertion specification ----------------------- *)
Paragraph == El("<p>", <<Text(<<"Intro">>)>>)
Heading == El("<h2>", <<Text(<<"Heading">>)>>)
QuoteBlock == El("<blockquote>", <<El("<p>", <<Text(<<"Quoted">>)>>)>>)
Boxed == El("<div>", <<El("<p>", <<Text(<<"Boxed">>)>>)>>)
Image == El("<img>", <<>>)
NewLine == Text(<<"\n">>)
MoreComment == Comment(<<"more">>)

NodeValues == {Paragraph, Heading, QuoteBlock, Boxed, Image, NewLine, MoreComment}

\* The bodies a post can have: the parser keeps them as they are (no white
\* space or comment before the first element, no two text nodes in a row).
Bodies ==
    {b \in SeqsUpTo(NodeValues, MaxNodes) :
        /\ b # <<>> => b[1].k = "element"
        /\ \A i \in 1..(Len(b) - 1) : ~(b[i].k = "text" /\ b[i + 1].k = "text")}

\* `[contentforge_tool id="${newToolId}"]`
Shortcode == <<"[", "contentforge_tool", " ", "id", "=", Quote, "7", Quote, "]">>

ToolSnippet ==
    <<"<script>", "</script>", "\n", ToolDivOpen, "Tool", "</div>", "\n">>

Snippets == {Shortcode, <<ToolDivOpen, "Tool", "</div>">>, ToolSnippet}

InsInit ==
    /\ postContent \in {innerHTML(b) : b \in Bodies}
    /\ snippet \in Snippets
    /\ inserter = "none"
    /\ decision = NotAsked
    /\ newContent = <<>>
    /\ insPc = "ready"
    /\ SanOff
    /\ GenOff
    /\ ScOff
    /\ AppOff
    /\ StreamOff
    /\ SessionOff

Inserted(name, outcome, r) ==
    /\ inserter' = name
    /\ decision' = IF r.asked THEN outcome ELSE NotAsked
    /\ newContent' = r.content
    /\ insPc' = "done"
    /\ UNCHANGED <<postContent, snippet, notInsVars>>

InsertShortcode ==
    /\ insPc = "ready"
    /\ \E outcome \in MarkerOutcomes :
        Inserted("insertShortcodeIntoContent", outcome,
                 insertShortcodeIntoContent(postContent, snippet, outcome))

InsertSnippetBlocks ==
    /\ insPc = "ready"
    /\ \E outcome \in BlockOutcomes, uniqueId \in UniqueIds :
        Inserted("insertSnippetIntoContent/blocks", outcome,
                 insertSnippetIntoContent_blocks(postContent, snippet, outcome, uniqueId))

InsertSnippetParagraphs ==
    /\ insPc = "ready"
    /\ \E outcome \in BlockOutcomes :
        Inserted("insertSnippetIntoContent/paragraphs", outcome,
                 insertSnippetIntoContent_paragraphs(postContent, snippet, outcome))

InsNext == InsertShortcode \/ InsertSnippetBlocks \/ InsertSnippetParagraphs

SpecInsert == InsInit /\ [][InsNext]_vars

(* --------------------------- insertion claims --------------------------- *)
ShortcodeInserter == "insertShortcodeIntoContent"
BlockInserters == {"insertSnippetIntoContent/blocks", "insertSnippetIntoContent/paragraphs"}

\* The number of places where needle occurs in s.
Occurrences(s, needle) ==
    Cardinality({i \in 1..(Len(s) - Len(needle) + 1) :
                    SubSeq(s, i, i + Len(needle) - 1) = needle})

\* new is orig with something put in after its first a chunks.
InsertedAt(orig, new, a) ==
    /\ Len(new) > Len(orig)
    /\ SubSeq(new, 1, a) = SubSeq(orig, 1, a)
    /\ SubSeq(new, Len(new) - (Len(orig) - a) + 1, Len(new)) = SubSeq(orig, a + 1, Len(orig))

\* What was put in, when new is orig with something put in after a chunks.
PutIn(orig, new, a) == SubSeq(new, a + 1, Len(new) - (Len(orig) - a))

\* C7: every inserter, whatever the placement request ends with, returns the
\* original content unchanged around one place where something was put in,
\* and the whole snippet occurs exactly once, in what was put in.
C7_InsertionKeepsContent ==
    insPc = "done" =>
        /\ Occurrences(newContent, trim(snippet)) = 1
        /\ \E a \in 0..Len(postContent) :
            /\ InsertedAt(postContent, newContent, a)
            /\ Occurrences(PutIn(postContent, newContent, a), trim(snippet)) = 1

\* The object between the first "{" and the last "}" of a response, a
\* SyntaxError when there is none.
ResponseObject(d) ==
    IF d.kind # "text" THEN SyntaxError
    ELSE
        LET f == indexOf(d.text, "{")
            l == lastIndexOf(d.text, "}")
        IN  IF f = 0 - 1 \/ l <= f THEN SyntaxError
            ELSE JSONparse(substring(d.text, f, l + 1))

\* The request threw, the response has no parsable object, its markerId is
\* no string that starts with CFORGE_MARKER_, or the comment of the marker it
\* names is nowhere in the marked-up document.
NoUsableMarker ==
    \/ decision.kind = "throws"
    \/ ResponseObject(decision) = SyntaxError
    \/ Get(ResponseObject(decision), "markerId").t # "string"
    \/ ~startsWith(Get(ResponseObject(decision), "markerId").s, MarkerPrefix)
    \/ OccursFrom(addInsertionMarkers(postContent),
                  <<"<!--", " ">> \o trim(Get(ResponseObject(decision), "markerId").s)
                      \o <<" ", "-->">>, 1) = 0

AppendedShortcode == postContent \o BlankLine \o snippet \o BlankLine

\* C8: when insertShortcodeIntoContent gets no usable marker, it returns the
\* original post content followed by the shortcode between blank lines; so a
\* marker is used only if its comment is in the marked-up document.
C8_FallbackAppends ==
    (insPc = "done" /\ inserter = ShortcodeInserter /\ NoUsableMarker)
        => newContent = AppendedShortcode

\* The blocks of the post: its p, h2 and blockquote elements at any depth.
PostBlocks == querySelectorAll(parseFromString(postContent), BlockTags)

C8_Witness ==
    /\ insPc = "done" /\ inserter = ShortcodeInserter
    /\ Len(PostBlocks) = 3
    /\ decision = [kind |-> "text", text |-> MarkerJson(<<MarkerPrefix, "9", "9">>)]
    /\ newContent = AppendedShortcode

\* s holds a comment with CFORGE_MARKER_ and a digit in it.
HasSentinelComment(s) ==
    \E i, j \in 1..Len(s) :
        /\ i < j /\ s[i] = "<!--" /\ s[j] = "-->"
        /\ \A k \in (i + 1)..(j - 1) : s[k] # "-->"
        /\ \E k \in (i + 1)..(j - 2) : s[k] = MarkerPrefix /\ IsDigit(s[k + 1])

\* C9: whichever path insertShortcodeIntoContent takes, no CFORGE_MARKER_<n>
\* comment is left in what it returns.
C9_NoSentinelLeft ==
    (insPc = "done" /\ inserter = ShortcodeInserter) => ~HasSentinelComment(newContent)

\* A marker was replaced in a document that had three more of them.
C9_Witness ==
    /\ insPc = "done" /\ inserter = ShortcodeInserter
    /\ ~NoUsableMarker
    /\ Occurrences(addInsertionMarkers(postContent), <<MarkerPrefix>>) = 4
    /\ Occurrences(newContent, snippet) = 1

\* The blocks the inserter that ran enumerates.
EnumeratedBlocks ==
    querySelectorAll(parseFromString(postContent),
                     IF inserter = "insertSnippetIntoContent/blocks" THEN BlockTags ELSE {"p"})

\* The length of the serialization up to the end tag of the element at path.
RECURSIVE EndOffset(_, _)
EndOffset(nodes, path) ==
    IF Len(path) = 1 THEN Len(innerHTML(SubSeq(nodes, 1, path[1])))
    ELSE Len(innerHTML(SubSeq(nodes, 1, path[1] - 1))) + 1
         + EndOffset(nodes[path[1]].kids, Tail(path))

\* The request threw, or the digits of the response are no number in 1..n.
PlacementFailed(d, n) ==
    \/ d.kind = "throws"
    \/ d.kind = "text" /\ LET k == parseInt(digitsOf(d.text))
                          IN  k.nan \/ k.v < 1 \/ k.v > n

\* C10: with fewer than two enumerated blocks no request is sent and the
\* snippet goes to the end of the document; with N >= 2 blocks and a failed
\* placement it goes right after block floor(N / 2), counted from 0 as in
\* contentBlocks[Math.floor(N / 2)].
C10_FallbackPosition ==
    (insPc = "done" /\ inserter \in BlockInserters) =>
        LET n == Len(EnumeratedBlocks)
        IN  /\ n < 2 =>
                /\ decision = NotAsked
                /\ InsertedAt(postContent, newContent, Len(postContent))
            /\ (n >= 2 /\ PlacementFailed(decision, n)) =>
                InsertedAt(postContent, newContent,
                           EndOffset(parseFromString(postContent),
                                     EnumeratedBlocks[(n \div 2) + 1]))

\* The integer formed by the digit characters of a response text; 0 - 1
\* when it has none.
DigitsNumber(text) ==
    IF SelectSeq(text, IsDigit) = <<>> THEN 0 - 1 ELSE DigitsValue(SelectSeq(text, IsDigit))

\* C11: insertSnippetIntoContent of services/aiService.ts with N >= 2 blocks
\* and a response text whose digits form K: for 1 <= K <= N the wrapped
\* snippet is put in right after the end of block K (counted from 1); with no
\* digits, K = 0 or K > N it is put in at the fallback position.
C11_ChosenBlock ==
    (insPc = "done" /\ inserter = "insertSnippetIntoContent/blocks" /\ decision.kind = "text") =>
        LET n == Len(PostBlocks)
            K == DigitsNumber(decision.text)
            target == IF 1 <= K /\ K <= n THEN K ELSE (n \div 2) + 1
            a == EndOffset(parseFromString(postContent), PostBlocks[target])
        IN  /\ InsertedAt(postContent, newContent, a)
            /\ Occurrences(PutIn(postContent, newContent, a), trim(snippet)) = 1
            /\ PutIn(postContent, newContent, a)[1] = ToolDivOpen

\* The response "-1" chose block 1 of three, which is not the fallback block.
C11_Witness ==
    /\ insPc = "done" /\ inserter = "insertSnippetIntoContent/blocks"
    /\ decision = [kind |-> "text", text |-> <<"-", "1">>]
    /\ Len(PostBlocks) = 3
    /\ InsertedAt(postContent, newContent,
                  EndOffset(parseFromString(postContent), PostBlocks[1]))

(* --------------------- shortcode detection and removal ------------------ *)
\* The i flag: letters compare without case.  The words of the model that
\* hold letters of the pattern, by their lower-case form.
SameCase(c) == c

LowerCase(c) ==
    CASE c \in {"CONTENTFORGE_TOOL", "ContentForge_Tool"} -> "contentforge_tool"
      [] c \in {"ID", "Id"} -> "id"
      [] OTHER -> c

IsQuoteChar(c) == c \in {Quote, "'"}

\* The first position >= i of s that holds "]" with no line terminator
\* before it (what .*?\] reaches); 0 when there is none.
RECURSIVE ClosingBracketFrom(_, _)
ClosingBracketFrom(s, i) ==
    IF i > Len(s) \/ s[i] = "\n" THEN 0
    ELSE IF s[i] = "]" THEN i
    ELSE ClosingBracketFrom(s, i + 1)

NoMatch == [end |-> 0, id |-> <<>>]

\* /\[\s*contentforge_tool\s+id\s*=\s*["']?(\d+)["']?\s*.*?\]/i matched at
\* position i: the position after the match and the captured digits.
ShortcodeMatchAt(s, i) ==
    IF s[i] # "[" THEN NoMatch
    ELSE
        LET a == SkipWhite(s, i + 1)
            b == SkipWhite(s, a + 1)
            c == SkipWhite(s, b + 1)
            d == SkipWhite(s, c + 1)
            e == IF d <= Len(s) /\ IsQuoteChar(s[d]) THEN d + 1 ELSE d
            f == SkipDigits(s, e)
            g == IF f <= Len(s) /\ IsQuoteChar(s[f]) THEN f + 1 ELSE f
            h == SkipWhite(s, g)
            j == ClosingBracketFrom(s, h)
        IN  IF /\ a <= Len(s) /\ LowerCase(s[a]) = "contentforge_tool"
               /\ b > a + 1
               /\ b <= Len(s) /\ LowerCase(s[b]) = "id"
               /\ c <= Len(s) /\ s[c] = "="
               /\ f > e
               /\ j # 0
            THEN [end |-> j + 1, id |-> SubSeq(s, e, f - 1)]
            ELSE NoMatch

\* content.match(SHORTCODE_DETECTION_REGEX): the leftmost match.
RECURSIVE MatchFrom(_, _)
MatchFrom(s, i) ==
    IF i > Len(s) THEN NoMatch
    ELSE IF ShortcodeMatchAt(s, i).end # 0 THEN ShortcodeMatchAt(s, i)
    ELSE MatchFrom(s, i + 1)

SHORTCODE_DETECTION_REGEX(s) == MatchFrom(s, 1)

\* content.replace(SHORTCODE_REMOVAL_REGEX, ''): every match, left to right.
RECURSIVE RemoveFrom(_, _)
RemoveFrom(s, i) ==
    IF i > Len(s) THEN <<>>
    ELSE IF ShortcodeMatchAt(s, i).end # 0 THEN RemoveFrom(s, ShortcodeMatchAt(s, i).end)
    ELSE <<s[i]>> \o RemoveFrom(s, i + 1)

SHORTCODE_REMOVAL_REGEX(s) == RemoveFrom(s, 1)

\* The tool ids named by the shortcodes that the replace takes out.
RECURSIVE RemovedIdsFrom(_, _)
RemovedIdsFrom(s, i) ==
    IF i > Len(s) THEN {}
    ELSE IF ShortcodeMatchAt(s, i).end # 0
         THEN {parseInt(ShortcodeMatchAt(s, i).id).v}
                \cup RemovedIdsFrom(s, ShortcodeMatchAt(s, i).end)
         ELSE RemovedIdsFrom(s, i + 1)

\* The fields fetchPosts derives from content.rendered.
fetchedPost(rendered) ==
    LET match == SHORTCODE_DETECTION_REGEX(rendered)
    IN  [hasOptimizerSnippet |-> match.end # 0,
         toolId |-> IF match.end # 0 THEN Num(parseInt(match.id).v, 0) ELSE Undef]

(* ------------------------ shortcode specification ----------------------- *)
OptionalQuotes == {<<>>, <<Quote>>, <<"'">>}

\* The spellings of [contentforge_tool id="42"] the pattern is written for:
\* any case, optional or mixed quotes, extra white space.
TokenSpellings ==
    {<<"[">> \o lead \o <<name>> \o sep \o <<idWord>> \o around \o <<"=">> \o around
        \o open \o <<"4", "2">> \o close \o trail \o <<"]">> :
        lead \in {<<>>, <<" ">>},
        name \in {"contentforge_tool", "ContentForge_Tool"},
        sep \in {<<" ">>, <<"\n", " ">>},
        idWord \in {"id", "ID"},
        around \in {<<>>, <<" ">>},
        open \in OptionalQuotes,
        close \in OptionalQuotes,
        trail \in {<<>>, <<" ">>}}

\* What stands before and after the token in a post.
TextsBefore ==
    {<<>>, <<"<p>", "Intro", "</p>", "\n", "\n">>, <<"[", "gallery", " ", "ids", "=", "1", "]", "[">>}

TextsAfter ==
    {<<>>, <<"\n", "\n", "<p>", "Outro", "</p>">>, <<"]", " ", "7">>}

\* Posts without a token, and posts with more than one or with parts of one.
OtherPosts ==
    {<<(<<>>), (<<>>), (<<>>)>>,
     <<(<<"<p>", "Intro", "</p>">>), (<<>>), (<<"[", "gallery", "]">>)>>,
     <<(<<"[", "contentforge_tool", " ", "id", "=", Quote, "x", Quote, "]">>), (<<>>), (<<>>)>>,
     <<(<<"[", "contentforge_tool", " ", "id", "=", "7">>), (<<>>), (<<"\n", "]">>)>>,
     <<(<<"[", "contentforge_tool", "id", "=", "7", "]">>), (<<>>), (<<>>)>>,
     <<Shortcode, (<<"[", "contentforge_tool", " ", "id", "=", "4", "2", " ", "class", "=", "wide", "]">>),
       (<<"<p>", "Outro", "</p>">>)>>,
     <<(<<"[", "contentforge_tool", " ", "id", "=">>), Shortcode, (<<"6", "]">>)>>}

ScPosts ==
    {<<pre, token, post>> :
        pre \in TextsBefore, token \in TokenSpellings, post \in TextsAfter}
    \cup OtherPosts

\* post.content.rendered
Rendered(parts) == parts[1] \o parts[2] \o parts[3]

ScInit ==
    /\ scParts \in ScPosts
    /\ scFetched = NotFetched
    /\ scRemoved = <<>>
    /\ SanOff
    /\ GenOff
    /\ InsOff
    /\ AppOff
    /\ StreamOff
    /\ SessionOff

\* fetchPosts maps the post of the response.
FetchPost ==
    /\ scFetched = NotFetched
    /\ scFetched' = fetchedPost(Rendered(scParts))
    /\ UNCHANGED <<scParts, scRemoved, notScVars>>

\* The removal of deleteSnippet, on the post and then on what it returned.
RemoveShortcodes ==
    /\ Len(scRemoved) < MaxRemovals
    /\ scRemoved' = Append(scRemoved,
            SHORTCODE_REMOVAL_REGEX(IF scRemoved = <<>> THEN Rendered(scParts)
                                    ELSE scRemoved[Len(scRemoved)]))
    /\ UNCHANGED <<scParts, scFetched, notScVars>>

ScNext == FetchPost \/ RemoveShortcodes

SpecShortcode == ScInit /\ [][ScNext]_vars

\* No letters of a token in s.
HasNoTokenWord(s) == \A i \in 1..Len(s) : LowerCase(s[i]) # "contentforge_tool"

\* The post holds one token, in one of the accepted spellings.
HoldsOneToken ==
    /\ scParts[2] \in TokenSpellings
    /\ HasNoTokenWord(scParts[1]) /\ HasNoTokenWord(scParts[3])

\* C12: when the post holds one token [contentforge_tool id="42"] in an
\* accepted spelling, detection finds it with toolId 42, and removal returns
\* the text before the token followed by the text after it.
C12_ShortcodeRoundTrip ==
    HoldsOneToken =>
        /\ scFetched # NotFetched =>
            scFetched = [hasOptimizerSnippet |-> TRUE, toolId |-> Num(42, 0)]
        /\ scRemoved # <<>> => scRemoved[1] = scParts[1] \o scParts[3]

\* Mixed quotes, upper case, a line break and spaces, inside other text.
C12_Witness ==
    /\ scParts[2] = <<"[", " ", "ContentForge_Tool", "\n", " ", "ID", " ", "=", " ",
                      "'", "4", "2", Quote, " ", "]">>
    /\ scParts[1] # <<>> /\ scParts[3] # <<>>
    /\ scFetched # NotFetched
    /\ scRemoved # <<>>

\* C14: removing the shortcodes from content they were already removed from
\* changes nothing, and the detection pattern finds nothing in it.
C14_RemovalIdempotent ==
    /\ Len(scRemoved) >= 2 => scRemoved[2] = scRemoved[1]
    /\ Len(scRemoved) >= 1 => SHORTCODE_DETECTION_REGEX(scRemoved[1]).end = 0

(* --------------------------- the WordPress site -------------------------- *)
Max(a, b) == IF a > b THEN a ELSE b

\* title.rendered of the posts of the site, by id.
TitleOf(id) == IF id = 1 THEN <<"T", "e", "a">> ELSE <<"P", "i", "e">>

\* wordpressService.fetchPosts on a successful response: the posts in id order.
fetchPosts(contents) ==
    [i \in 1..Len(contents) |->
        [t |-> "object", id |-> Num(i, 0), title |-> Str(TitleOf(i)),
         content |-> contents[i]]
            @@ fetchedPost(contents[i])]

\* posts.find(p => p.id === id)
find(posts, id) ==
    IF \E i \in 1..Len(posts) : posts[i].id = id
    THEN posts[CHOOSE i \in 1..Len(posts) :
                    posts[i].id = id /\ \A j \in 1..(i - 1) : posts[j].id # id]
    ELSE Undef

\* WordPress numbers a new cf_tool post after every post it ever had.
NewToolId(tools) ==
    IF tools.all = {} THEN 1
    ELSE (CHOOSE n \in tools.all : \A k \in tools.all : k <= n) + 1

\* originalContent.lastIndexOf('<h', from): tags are whole chunks, and the
\* tags of a post that start with "<h" are these.
RECURSIVE lastIndexOfTagStart(_, _)
lastIndexOfTagStart(s, from) ==
    IF from < 0 THEN 0 - 1
    ELSE IF s[from + 1] \in {"<h2>", "<h3>", "<h4>", "<hr>"} THEN from
         ELSE lastIndexOfTagStart(s, from - 1)

\* insertSnippet: the shortcode of the new tool and the "smart insertion".
shortcodeOf(newToolId) ==
    <<"[", "contentforge_tool", " ", "id", "=", Quote>> \o NatToChars(newToolId)
        \o <<Quote, "]">>

smartInsertionAppends(originalContent, shortcode) ==
    originalContent \o <<"\n", "\n">> \o shortcode \o <<"\n", "\n">>

smartInsertion(originalContent, shortcode) ==
    LET shortcodeWithNewlines == <<"\n", "\n">> \o shortcode \o <<"\n", "\n">>
        lastH2 == lastIndexOf(originalContent, "</h2>")
        lastH3 == lastIndexOf(originalContent, "</h3>")
        insertionPoint == Max(lastH2, lastH3)
        tagStart == lastIndexOfTagStart(originalContent, insertionPoint)
    IN  IF insertionPoint # 0 - 1 /\ tagStart # 0 - 1
        THEN substring(originalContent, 0, tagStart) \o shortcodeWithNewlines
                \o substring(originalContent, tagStart, Len(originalContent))
        ELSE originalContent \o shortcodeWithNewlines

(* ------------------------------ async calls ----------------------------- *)
MaxFlights == 2

MaxTools == 2

\* An async call of the provider between two awaits: what it closed over
\* (post id, content, tool id), the server changes it made so far, and
\* whether the Step2Analyze instance that started it is still mounted, and
\* the status of the response to its DELETE request; for a deletion, the tool
\* ids of the shortcodes it takes out of the content.
Flight(op, pc, postId, content, toolId) ==
    [op |-> op, pc |-> pc, postId |-> postId, content |-> content,
     toolId |-> toolId, made |-> <<>>, mounted |-> TRUE, status |-> "none",
     removed |-> {}]

Ended(f, how) ==
    [op |-> f.op, how |-> how, made |-> f.made, postId |-> f.postId,
     pc |-> f.pc, status |-> f.status, toolId |-> f.toolId, removed |-> f.removed]

Without(fs, i) == SubSeq(fs, 1, i - 1) \o SubSeq(fs, i + 1, Len(fs))

\* Leaving step 2 unmounts Step2Analyze: its modal state is gone, and the
\* finally callbacks of its deletions act on a dead instance.
Unmount(fs) == [i \in 1..Len(fs) |-> [fs[i] EXCEPT !.mounted = FALSE]]

(* ------------------------- the provider's actions ----------------------- *)
PlainPost == <<"<p>", "Body", "</p>">>

HeadedPost ==
    <<"<p>", "Intro", "</p>", "<h2>", "Summary", "</h2>", "<p>", "Outro", "</p>">>

QuizPost == PlainPost \o <<"\n", "\n">> \o Shortcode \o <<"\n", "\n">>

\* A post whose shortcode names no tool post: parseInt gives 0.
StrayQuizPost == PlainPost \o shortcodeOf(0)

\* The sites the app connects to: one without posts, one with two posts of
\* which the second already holds the quiz of tool 7, one whose only post
\* holds a shortcode that names none of its tool posts.
Sites ==
    {[posts |-> <<>>, tools |-> {}],
     [posts |-> <<HeadedPost, QuizPost>>, tools |-> {7}],
     [posts |-> <<StrayQuizPost>>, tools |-> {7}]}

\* What a generation call ends with.
AppOutcomes == {[kind |-> "throws"], [kind |-> "text", text |-> <<"{", "kc-tiers-2-0", "}">>]}

Called(op, postId) == [NoneEnded EXCEPT !.op = op, !.how = "called", !.postId = postId]

\* The async call at position i awaits `pc` of operation `op`.
Awaits(i, op, pc) == i \in 1..Len(flights) /\ flights[i].op = op /\ flights[i].pc = pc

\* The call ends: its catch block or its last dispatch has run.
Ends(i, how) ==
    /\ flights' = Without(flights, i)
    /\ ended' = Ended(flights[i], how)

\* The call goes on to its next await.
GoesOn(i, pc, calls) ==
    /\ flights' = [flights EXCEPT ![i].pc = pc, ![i].made = @ \o calls]
    /\ ended' = NoneEnded

\* catch (err): dispatch SET_ERROR with the message of the Error
Caught(message) == app' = appReducer(app, DispatchWith("SET_ERROR", Word(message)))

\* ConfirmationModal is open over the page.
ModalOpen == modal # Null

\* The key the provider accepts; any other key, '' included, it rejects.
GoodKey == "sk-good"

\* Step 1 with the key of the selected provider typed in and validated.
ValidatedState ==
    [initialState EXCEPT !.apiKeys["gemini"] = GoodKey,
                         !.apiValidationStatuses["gemini"] = "valid"]

\* Step1Configure: apiValidationStatuses[selectedProvider] === 'valid'
isApiKeyValid(state) == state.apiValidationStatuses[state.selectedProvider] = "valid"

AppInit ==
    /\ \E site \in Sites :
        /\ wpPosts = site.posts
        /\ wpTools = [live |-> site.tools, all |-> site.tools]
    /\ app = ValidatedState
    /\ flights = <<>>
    /\ modal = Null
    /\ ended = NoneEnded
    /\ build = "services/aiService.ts" /\ genPc = "off" /\ shown = NoScreen
    /\ SanOff
    /\ InsOff
    /\ ScOff
    /\ StreamOff
    /\ SessionOff

\* Step 1, "Connect & Fetch Posts" (or the retry of the setup instructions):
\* connectToWordPress up to its first await.
ConnectToWordPress ==
    /\ app.currentStep = "Configure"
    /\ isApiKeyValid(app)
    /\ app.setupRequired \/ app.status # "loading"
    /\ Len(flights) < MaxFlights
    /\ app' = appReducer(app, Dispatch("START_LOADING"))
    /\ flights' = Append(flights, Flight("connectToWordPress", "checkSetup", Null, <<>>, Undef))
    /\ ended' = Called("connectToWordPress", Null)
    /\ UNCHANGED <<wpPosts, wpTools, modal, notAppVars>>

\* checkSetup resolves: false also when the request failed.
ConnectCheckSetupSettles ==
    \E i \in 1..Len(flights), isSetup \in BOOLEAN :
        /\ Awaits(i, "connectToWordPress", "checkSetup")
        /\ IF isSetup
           THEN /\ flights' = [flights EXCEPT ![i].pc = "fetchPosts"]
                /\ ended' = NoneEnded
                /\ app' = app
           ELSE /\ app' = appReducer(appReducer(app, DispatchWith("SET_SETUP_REQUIRED", TRUE)),
                                     DispatchWith("SET_ERROR", Word("A one-time setup is required.")))
                /\ Ends(i, "failure")
        /\ UNCHANGED <<wpPosts, wpTools, modal, notAppVars>>

ConnectFetchPostsSettles ==
    \E i \in 1..Len(flights), ok \in BOOLEAN :
        /\ Awaits(i, "connectToWordPress", "fetchPosts")
        /\ IF ~ok
           THEN Caught("Failed to fetch posts.") /\ Ends(i, "failure")
           ELSE IF Len(fetchPosts(wpPosts)) = 0
                THEN /\ Caught("Connected successfully, but no posts were found.")
                     /\ Ends(i, "no-posts")
                ELSE /\ app' = appReducer(app, DispatchWith("CONFIGURE_SUCCESS",
                                [config |-> [t |-> "object"], posts |-> fetchPosts(wpPosts)]))
                     /\ Ends(i, "success")
        /\ UNCHANGED <<wpPosts, wpTools, modal, notAppVars>>

\* generateAndSetQuizData up to its await (no regeneration feedback is typed
\* in, so every call is a fresh generation).
generateAndSetQuizData(state, post) ==
    /\ app' = appReducer(state, Dispatch("START_LOADING"))
    /\ flights' = Append(IF state.currentStep # app.currentStep THEN Unmount(flights) ELSE flights,
                         Flight("generateAndSetQuizData", "generateQuizData",
                                post.id, post.content, Undef))
    /\ ended' = Called("generateAndSetQuizData", post.id)

\* Step 2: a post card is clicked (its button is disabled while the post is
\* being deleted; the open modal covers the page).
SelectPostCard ==
    /\ app.currentStep = "Analyze"
    /\ ~ModalOpen
    /\ Len(flights) < MaxFlights
    /\ \E i \in 1..Len(app.filteredPosts) :
        LET post == app.filteredPosts[i]
        IN  /\ post.id # app.deletingPostId
            /\ generateAndSetQuizData(appReducer(app, DispatchWith("SELECT_POST", post)), post)
    /\ modal' = Null
    /\ UNCHANGED <<wpPosts, wpTools, notAppVars>>

\* Step 3 shows its workspace, and nothing is loading.
isAnythingLoading == app.status = "loading" \/ app.insertingStatus = "loading"

WorkspaceEnabled ==
    /\ app.currentStep = "Generate"
    /\ app.insertingStatus # "success"
    /\ ~isAnythingLoading

RegenerateQuizClicked ==
    /\ WorkspaceEnabled
    /\ Len(flights) < MaxFlights
    /\ Truthy(app.selectedPost) /\ Truthy(app.quizData)
    /\ generateAndSetQuizData(app, app.selectedPost)
    /\ UNCHANGED <<wpPosts, wpTools, modal, notAppVars>>

SetQuizDifficultyClicked ==
    /\ WorkspaceEnabled
    /\ Len(flights) < MaxFlights
    /\ Truthy(app.selectedPost)
    /\ generateAndSetQuizData(app, app.selectedPost)
    /\ UNCHANGED <<wpPosts, wpTools, modal, notAppVars>>

GenerateSettles ==
    \E i \in 1..Len(flights), outcome \in AppOutcomes :
        /\ Awaits(i, "generateAndSetQuizData", "generateQuizData")
        /\ LET r == generateQuizData(build, outcome)
           IN  IF r.kind = "resolved"
               THEN /\ app' = appReducer(app, DispatchWith("GENERATE_QUIZ_SUCCESS", r.value))
                    /\ Ends(i, "success")
               ELSE Caught(r.message) /\ Ends(i, "failure")
        /\ UNCHANGED <<wpPosts, wpTools, modal, notAppVars>>

\* Step 3, "Insert": insertSnippet up to its first await.  The number of
\* tool posts a run creates is capped.
InsertSnippetClicked ==
    /\ WorkspaceEnabled
    /\ Len(flights) < MaxFlights
    /\ Truthy(app.wpConfig) /\ Truthy(app.selectedPost) /\ Truthy(app.quizData)
    /\ Cardinality(wpTools.all)
         + Cardinality({i \in 1..Len(flights) : Awaits(i, "insertSnippet", "createCfTool")})
            < MaxTools
    /\ app' = appReducer(app, Dispatch("START_INSERTING"))
    /\ flights' = Append(flights, Flight("insertSnippet", "createCfTool",
                                         app.selectedPost.id, app.selectedPost.content, Undef))
    /\ ended' = Called("insertSnippet", app.selectedPost.id)
    /\ UNCHANGED <<wpPosts, wpTools, modal, notAppVars>>

\* createCfTool settles; with the new id the content to send is computed.
InsertCreateCfToolSettles ==
    \E i \in 1..Len(flights), ok \in BOOLEAN :
        /\ Awaits(i, "insertSnippet", "createCfTool")
        /\ IF ok
           THEN LET newToolId == NewToolId(wpTools)
                IN  /\ wpTools' = [live |-> wpTools.live \cup {newToolId},
                                   all |-> wpTools.all \cup {newToolId}]
                    /\ flights' = [flights EXCEPT
                            ![i].pc = "updatePost",
                            ![i].toolId = Num(newToolId, 0),
                            ![i].content = smartInsertion(@, shortcodeOf(newToolId)),
                            ![i].made = Append(@, "createCfTool")]
                    /\ ended' = NoneEnded
                    /\ app' = app
           ELSE /\ Caught("Failed to create tool post.")
                /\ Ends(i, "failure")
                /\ wpTools' = wpTools
        /\ UNCHANGED <<wpPosts, modal, notAppVars>>

\* updatePost of either operation succeeds: the site stores the content.
Updated(f) == wpPosts' = [wpPosts EXCEPT ![f.postId.m] = f.content]

InsertUpdatePostSettles ==
    \E i \in 1..Len(flights), ok \in BOOLEAN :
        /\ Awaits(i, "insertSnippet", "updatePost")
        /\ IF ok
           THEN Updated(flights[i]) /\ GoesOn(i, "fetchPosts", <<"updatePost">>) /\ app' = app
           ELSE Caught("Failed to update post.") /\ Ends(i, "failure") /\ wpPosts' = wpPosts
        /\ UNCHANGED <<wpTools, modal, notAppVars>>

InsertFetchPostsSettles ==
    \E i \in 1..Len(flights), ok \in BOOLEAN :
        /\ Awaits(i, "insertSnippet", "fetchPosts")
        /\ IF ok
           THEN LET newPosts == fetchPosts(wpPosts)
                    updatedPost == find(newPosts, flights[i].postId)
                IN  /\ app' = appReducer(app, DispatchWith("INSERT_SNIPPET_SUCCESS",
                                    [posts |-> newPosts, updatedPost |-> updatedPost]))
                    /\ Ends(i, "success")
           ELSE Caught("Failed to fetch posts.") /\ Ends(i, "failure")
        /\ UNCHANGED <<wpPosts, wpTools, modal, notAppVars>>

contentAlwaysHasShortcode(rendered) == TRUE

\* SHORTCODE_DETECTION_REGEX.test(postToDeleteFrom.content.rendered)
contentHasShortcode(rendered) == SHORTCODE_DETECTION_REGEX(rendered).end # 0

\* deleteSnippet(postId, toolId) up to its first await, or to its end when
\* the cached content holds no shortcode.  The promise of a call that ended
\* lets the finally callback of handleConfirmDelete close the modal.
deleteSnippet(postId, toolId) ==
    LET postToDeleteFrom == find(app.posts, postId)
        started == appReducer(app, DispatchWith("START_DELETING_SNIPPET", postId))
    IN  /\ Truthy(app.wpConfig)
        /\ postToDeleteFrom # Undef
        /\ IF ~contentHasShortcode(postToDeleteFrom.content)
           THEN /\ app' = appReducer(started, DispatchWith("SET_ERROR",
                        Word("Tool shortcode not found in post content. Deletion failed.")))
                /\ flights' = flights
                /\ ended' = [Called("deleteSnippet", postId) EXCEPT !.how = "thrown"]
                /\ modal' = Null
           ELSE /\ app' = started
                /\ flights' = Append(flights,
                        [Flight("deleteSnippet", "updatePost", postId,
                                SHORTCODE_REMOVAL_REGEX(postToDeleteFrom.content), toolId)
                            EXCEPT !.removed = RemovedIdsFrom(postToDeleteFrom.content, 1)])
                /\ ended' = Called("deleteSnippet", postId)
                /\ modal' = modal

\* Step 2, "Delete Quiz" on a card: shown for a post with a quiz that is not
\* being deleted; it opens the modal.
DeleteRequested ==
    /\ app.currentStep = "Analyze"
    /\ ~ModalOpen
    /\ \E i \in 1..Len(app.filteredPosts) :
        LET post == app.filteredPosts[i]
        IN  /\ post.hasOptimizerSnippet /\ post.id # app.deletingPostId
            /\ modal' = post
    /\ ended' = NoneEnded
    /\ UNCHANGED <<app, wpPosts, wpTools, flights, notAppVars>>

\* The modal's buttons, out of use while isConfirming.
DeleteCancelled ==
    /\ ModalOpen
    /\ app.deletingPostId = Null
    /\ modal' = Null
    /\ ended' = NoneEnded
    /\ UNCHANGED <<app, wpPosts, wpTools, flights, notAppVars>>

DeleteConfirmed ==
    /\ ModalOpen
    /\ app.deletingPostId = Null
    /\ Len(flights) < MaxFlights
    /\ deleteSnippet(modal.id, modal.toolId)
    /\ UNCHANGED <<wpPosts, wpTools, notAppVars>>

afterUpdatePostAlwaysDeletes(toolId) == "deleteCfTool"

\* if (toolId) await deleteCfTool(...) else console.warn(...)
afterUpdatePost(toolId) == IF Truthy(toolId) THEN "deleteCfTool" ELSE "fetchPosts"

\* .finally(() => { setIsModalOpen(false); setPostToDelete(null) })
Finally(f) == modal' = IF f.mounted THEN Null ELSE modal

DeleteUpdatePostSettles ==
    \E i \in 1..Len(flights), ok \in BOOLEAN :
        /\ Awaits(i, "deleteSnippet", "updatePost")
        /\ IF ok
           THEN /\ Updated(flights[i])
                /\ GoesOn(i, afterUpdatePost(flights[i].toolId), <<"updatePost">>)
                /\ app' = app /\ modal' = modal
           ELSE /\ Caught("Failed to update post.") /\ Ends(i, "failure")
                /\ wpPosts' = wpPosts /\ Finally(flights[i])
        /\ UNCHANGED <<wpTools, notAppVars>>

\* The answers to DELETE cf_tool/{id}?force=true: WordPress deletes a tool
\* post it has (200) and has none to delete otherwise (404); it may also
\* refuse (403) or break (500).
DeleteResponses(toolId) ==
    (IF toolId \in wpTools.live THEN {"200"} ELSE {"404"}) \cup {"403", "500"}

deleteCfToolRejects404(status) ==
    IF status = "200" THEN [kind |-> "resolved"]
    ELSE [kind |-> "rejected", message |-> "Failed to delete tool post."]

\* wordpressService.deleteCfTool, given the status of the response:
\* response.ok, or 404, resolves; anything else throws.
deleteCfTool(status) ==
    IF status = "200" THEN [kind |-> "resolved"]
    ELSE IF status = "404" THEN [kind |-> "resolved"]
    ELSE [kind |-> "rejected", message |-> "Failed to delete tool post."]

\* deleteCfTool settles.
DeleteCfToolSettles ==
    \E i \in 1..Len(flights) :
        /\ Awaits(i, "deleteSnippet", "deleteCfTool")
        /\ \E status \in DeleteResponses(flights[i].toolId.m) :
            LET answered == [flights EXCEPT ![i].status = status]
            IN  /\ wpTools' = IF status = "200"
                              THEN [wpTools EXCEPT !.live = @ \ {flights[i].toolId.m}]
                              ELSE wpTools
                /\ IF deleteCfTool(status).kind = "resolved"
                   THEN /\ flights' = [answered EXCEPT
                                ![i].pc = "fetchPosts",
                                ![i].made = @ \o (IF status = "200" THEN <<"deleteCfTool">>
                                                  ELSE <<>>)]
                        /\ ended' = NoneEnded
                        /\ app' = app /\ modal' = modal
                   ELSE /\ Caught(deleteCfTool(status).message)
                        /\ flights' = Without(flights, i)
                        /\ ended' = Ended(answered[i], "failure")
                        /\ Finally(flights[i])
        /\ UNCHANGED <<wpPosts, notAppVars>>

DeleteFetchPostsSettles ==
    \E i \in 1..Len(flights), ok \in BOOLEAN :
        /\ Awaits(i, "deleteSnippet", "fetchPosts")
        /\ IF ok
           THEN /\ app' = appReducer(app, DispatchWith("DELETE_SNIPPET_COMPLETE",
                                [posts |-> fetchPosts(wpPosts)]))
                /\ Ends(i, "success")
           ELSE Caught("Failed to fetch posts.") /\ Ends(i, "failure")
        /\ Finally(flights[i])
        /\ UNCHANGED <<wpPosts, wpTools, notAppVars>>

\* The header's "Start Over", shown on steps 2 and 3.
StartOver ==
    /\ app.currentStep # "Configure"
    /\ ~ModalOpen
    /\ app' = appReducer(app, Dispatch("RESET"))
    /\ flights' = Unmount(flights)
    /\ modal' = Null
    /\ ended' = NoneEnded
    /\ UNCHANGED <<wpPosts, wpTools, notAppVars>>

\* The success screen's "Create Another Quiz".
CreateAnotherQuiz ==
    /\ app.currentStep = "Generate"
    /\ app.insertingStatus = "success"
    /\ app' = appReducer(app, Dispatch("RESET_TO_ANALYZE"))
    /\ ended' = NoneEnded
    /\ UNCHANGED <<wpPosts, wpTools, flights, modal, notAppVars>>

AppNext ==
    \/ ConnectToWordPress
    \/ ConnectCheckSetupSettles
    \/ ConnectFetchPostsSettles
    \/ SelectPostCard
    \/ RegenerateQuizClicked
    \/ SetQuizDifficultyClicked
    \/ GenerateSettles
    \/ InsertSnippetClicked
    \/ InsertCreateCfToolSettles
    \/ InsertUpdatePostSettles
    \/ InsertFetchPostsSettles
    \/ DeleteRequested
    \/ DeleteCancelled
    \/ DeleteConfirmed
    \/ DeleteUpdatePostSettles
    \/ DeleteCfToolSettles
    \/ DeleteFetchPostsSettles
    \/ StartOver
    \/ CreateAnotherQuiz

SpecApp == AppInit /\ [][AppNext]_vars

(* ------------------------------ the API key ----------------------------- *)
\* What is typed into the key field.
Keys == {"", GoodKey, "sk-bad"}

\* Where the app starts: no key is validated; the theme is the browser's.
ApiKeyInit ==
    /\ \E site \in Sites :
        /\ wpPosts = site.posts
        /\ wpTools = [live |-> site.tools, all |-> site.tools]
    /\ \E theme \in {"light", "dark"} : app = [initialState EXCEPT !.theme = theme]
    /\ flights = <<>>
    /\ modal = Null
    /\ ended = NoneEnded
    /\ build = "services/aiService.ts" /\ genPc = "off" /\ shown = NoScreen
    /\ SanOff
    /\ InsOff
    /\ ScOff
    /\ StreamOff
    /\ SessionOff

\* ApiConfiguration is part of step 1's form.
ApiConfigurationShown == app.currentStep = "Configure" /\ ~app.setupRequired

SetProvider ==
    /\ ApiConfigurationShown
    /\ \E provider \in Providers \ {app.selectedProvider} :
        app' = appReducer(app, DispatchWith("SET_PROVIDER", provider))
    /\ ended' = NoneEnded
    /\ UNCHANGED <<wpPosts, wpTools, flights, modal, notAppVars>>

\* if (state.apiValidationStatuses[provider] === 'valid')
setApiKeyResets(state, provider) == state.apiValidationStatuses[provider] = "valid"

\* The key field, which is never disabled: setApiKey.
SetApiKey ==
    /\ ApiConfigurationShown
    /\ \E key \in Keys \ {app.apiKeys[app.selectedProvider]} :
        LET provider == app.selectedProvider
            keyed == appReducer(app, DispatchWith("SET_API_KEY",
                                    [provider |-> provider, key |-> key]))
        IN  app' = IF setApiKeyResets(app, provider)
                   THEN appReducer(keyed, DispatchWith("SET_VALIDATION_STATUS",
                                    [provider |-> provider, status |-> "idle"]))
                   ELSE keyed
    /\ ended' = NoneEnded
    /\ UNCHANGED <<wpPosts, wpTools, flights, modal, notAppVars>>

\* "Save & Validate Key", disabled while the provider's status is
\* 'validating': validateAndSaveApiKey up to its await, with the key of the
\* moment of the click.
ValidateClicked ==
    /\ ApiConfigurationShown
    /\ app.apiValidationStatuses[app.selectedProvider] # "validating"
    /\ Len(flights) < MaxFlights
    /\ app' = appReducer(app, DispatchWith("SET_VALIDATION_STATUS",
                    [provider |-> app.selectedProvider, status |-> "validating"]))
    /\ flights' = Append(flights,
                    Flight("validateAndSaveApiKey", "validateApiKey", Null, <<>>, Undef)
                    @@ [provider |-> app.selectedProvider,
                        apiKey |-> app.apiKeys[app.selectedProvider]])
    /\ ended' = Called("validateAndSaveApiKey", Null)
    /\ UNCHANGED <<wpPosts, wpTools, modal, notAppVars>>

\* aiService.validateApiKey: what the provider answers for the key, or false
\* when the request fails.
validateApiKey(apiKey) == {apiKey = GoodKey, FALSE}

ValidateSettles ==
    \E i \in 1..Len(flights) :
        /\ Awaits(i, "validateAndSaveApiKey", "validateApiKey")
        /\ \E isValid \in validateApiKey(flights[i].apiKey) :
            /\ app' = appReducer(app, DispatchWith("SET_VALIDATION_STATUS",
                            [provider |-> flights[i].provider,
                             status |-> IF isValid THEN "valid" ELSE "invalid"]))
            /\ Ends(i, IF isValid THEN "success" ELSE "failure")
        /\ UNCHANGED <<wpPosts, wpTools, modal, notAppVars>>

ApiKeyNext ==
    \/ SetProvider
    \/ SetApiKey
    \/ ValidateClicked
    \/ ValidateSettles
    \/ ConnectToWordPress
    \/ ConnectCheckSetupSettles
    \/ ConnectFetchPostsSettles
    \/ StartOver

SpecApiKey == ApiKeyInit /\ [][ApiKeyNext]_vars

\* What is typed into "Search posts by title...".
Queries == {<<>>, <<"E", "A">>}

\* Step 2's search box, out of use while status is 'loading'.
SetPostSearchQuery ==
    /\ app.currentStep = "Analyze"
    /\ app.status # "loading"
    /\ ~ModalOpen
    /\ \E query \in Queries \ {app.postSearchQuery} :
        app' = appReducer(app, DispatchWith("SET_POST_SEARCH_QUERY", query))
    /\ ended' = NoneEnded
    /\ UNCHANGED <<wpPosts, wpTools, flights, modal, notAppVars>>

SearchNext == AppNext \/ SetPostSearchQuery

\* The app with its search box in use.
SpecSearch == AppInit /\ [][SearchNext]_vars

(* ------------------------- claims about the app ------------------------- *)
\* The step just taken was a call of deleteSnippet for a post of state.posts
\* whose cached content matches no shortcode.
DeleteCalledWithoutShortcode ==
    /\ ended'.op = "deleteSnippet"
    /\ ended'.how \in {"called", "thrown"}
    /\ find(app.posts, ended'.postId) # Undef
    /\ SHORTCODE_DETECTION_REGEX(find(app.posts, ended'.postId).content).end = 0

\* C13: a call of deleteSnippet for a post whose cached content holds no
\* shortcode ends at once with SET_ERROR and its message; it awaits no
\* updatePost and no deleteCfTool, the site is untouched and state.posts
\* keeps its value.
C13_DeleteWithoutShortcode ==
    [][DeleteCalledWithoutShortcode =>
        /\ ended'.how = "thrown"
        /\ app'.error = Word("Tool shortcode not found in post content. Deletion failed.")
        /\ app'.status = "error" /\ app'.deletingPostId = Null
        /\ flights' = flights
        /\ wpPosts' = wpPosts /\ wpTools' = wpTools
        /\ app'.posts = app.posts]_vars

C13_Witness ==
    /\ ended.op = "deleteSnippet" /\ ended.how = "thrown"
    /\ ~find(app.posts, ended.postId).hasOptimizerSnippet
    /\ app.error # Null

\* The step just taken ended insertSnippet or deleteSnippet in its catch
\* block, after a network call failed.
WriteFailed == ended.op \in {"insertSnippet", "deleteSnippet"} /\ ended.how = "failure"

\* C15 (as stated): when a network call of insertSnippet or deleteSnippet
\* fails, the operation ends with error set and has changed nothing on the
\* site: no post content stored, no tool post created or deleted by it.
C15_NoPartialMutation ==
    WriteFailed => (app.error # Null /\ ended.made = <<>>)

\* The three operations of the claim, as async calls awaiting a response.
Operations == {"generateAndSetQuizData", "insertSnippet", "deleteSnippet"}

InFlight == {i \in 1..Len(flights) : flights[i].op \in Operations}

\* C16 (as stated): at most one of quiz generation, insertion and deletion
\* is in flight in every reachable state.
C16_OneOperationInFlight == Cardinality(InFlight) <= 1

\* A network-boundary failure just ended one of the four operations.
FailureEnded ==
    /\ ended.op \in {"connectToWordPress", "generateAndSetQuizData",
                      "insertSnippet", "deleteSnippet"}
    /\ ended.how = "failure"

\* C18: whenever a network failure ends connectToWordPress, quiz generation,
\* insertSnippet or deleteSnippet, the resulting state holds a non-empty
\* error string and no loading indicator: status and insertingStatus are not
\* 'loading' and deletingPostId is null.
C18_FailureResetsIndicators ==
    FailureEnded =>
        /\ app.error.t = "string" /\ app.error.s # <<>>
        /\ app.status # "loading"
        /\ app.insertingStatus # "loading"
        /\ app.deletingPostId = Null

\* An insertion fails while insertingStatus was 'loading'.
C18_Witness ==
    /\ ended.op = "insertSnippet" /\ ended.how = "failure"
    /\ ended.made = <<"createCfTool">>
    /\ app.insertingStatus = "error"

(* ------------------------- streamed snippet (SSE) ----------------------- *)
\* The reducer of the tool version of the app, on the fields that the
\* streamed generation touches.  A text is a sequence of chunks.
toolState(status, generatedSnippet, error) ==
    [status |-> status, generatedSnippet |-> generatedSnippet, error |-> error]

GENERATE_SNIPPET_CHUNK_Prepends(state, payload) ==
    [state EXCEPT !.generatedSnippet = payload \o @]

\* case 'GENERATE_SNIPPET_CHUNK'
GENERATE_SNIPPET_CHUNK(state, payload) ==
    [state EXCEPT !.generatedSnippet = @ \o payload]

toolReducer(state, action) ==
    CASE action.type = "GENERATE_SNIPPET_START" ->
            [state EXCEPT !.status = "loading", !.generatedSnippet = <<>>, !.error = Null]
      [] action.type = "GENERATE_SNIPPET_CHUNK" ->
            GENERATE_SNIPPET_CHUNK(state, action.payload)
      [] action.type = "GENERATE_SNIPPET_COMPLETE" -> [state EXCEPT !.status = "idle"]
      [] action.type = "SET_ERROR" ->
            [state EXCEPT !.status = "error", !.error = action.payload]
      [] OTHER -> state

\* JSON.parse of the data of an event.  The payloads of the model are "{",
\* a key of this table, "}"; anything else is not JSON.
SseEvents ==
    [k \in {"content: <div>", "content: Hello", "content: </div>", "content: (empty)",
            "role: assistant", "no choices", "text_delta: <div>", "text_delta: Hello",
            "message_start"} |->
        CASE k = "content: <div>" -> [choices |-> TRUE, type |-> "(none)", content |-> <<"<div>">>]
          [] k = "content: Hello" -> [choices |-> TRUE, type |-> "(none)", content |-> <<"Hello">>]
          [] k = "content: </div>" -> [choices |-> TRUE, type |-> "(none)", content |-> <<"</div>">>]
          [] k = "content: (empty)" -> [choices |-> TRUE, type |-> "(none)", content |-> <<>>]
          [] k = "role: assistant" -> [choices |-> TRUE, type |-> "(none)", content |-> <<>>]
          [] k = "no choices" -> [choices |-> FALSE, type |-> "(none)", content |-> <<>>]
          [] k = "text_delta: <div>" ->
                [choices |-> FALSE, type |-> "content_block_delta", content |-> <<"<div>">>]
          [] k = "text_delta: Hello" ->
                [choices |-> FALSE, type |-> "content_block_delta", content |-> <<"Hello">>]
          [] k = "message_start" ->
                [choices |-> FALSE, type |-> "message_start", content |-> <<>>]]

\* The chunk of one line of the stream: <<>> when the line yields nothing.
\* parsed.choices[0] of an object without choices throws inside the try.
chunkOfLine(provider, line) ==
    IF line = <<>> \/ line[1] # "data: " THEN <<>>
    ELSE LET json == Tail(line)
         IN  IF Len(json) # 3 \/ json[1] # "{" \/ json[3] # "}" \/ json[2] \notin DOMAIN SseEvents
             THEN <<>>
             ELSE LET parsed == SseEvents[json[2]]
                  IN  IF provider = "anthropic"
                      THEN IF parsed.type = "content_block_delta" THEN parsed.content ELSE <<>>
                      ELSE IF parsed.choices THEN parsed.content ELSE <<>>

\* data.trim() === '[DONE]'
isDone(line) == line # <<>> /\ line[1] = "data: " /\ trim(Tail(line)) = <<"[DONE]">>

\* buffer.split('\n'): the pieces between the line breaks.
RECURSIVE split(_, _)
split(s, piece) ==
    IF s = <<>> THEN <<piece>>
    ELSE IF s[1] = "\n" THEN <<piece>> \o split(Tail(s), <<>>)
         ELSE split(Tail(s), Append(piece, s[1]))

\* What the generator yields from these lines: up to [DONE], in order.
RECURSIVE chunksOfLines(_, _)
chunksOfLines(provider, lines) ==
    IF lines = <<>> \/ isDone(lines[1]) THEN <<>>
    ELSE (IF chunkOfLine(provider, lines[1]) = <<>> THEN <<>>
          ELSE <<chunkOfLine(provider, lines[1])>>)
            \o chunksOfLines(provider, Tail(lines))

RECURSIVE Concat(_)
Concat(chunks) == IF chunks = <<>> THEN <<>> ELSE chunks[1] \o Concat(Tail(chunks))

\* The streams a provider sends: events ended by a line break, comments,
\* blank lines, data that is not JSON, [DONE], and a tail without line break.
DataLine(k) == <<"data: ", "{", k, "}", "\n">>

SseStreams ==
    {<<>>,
     DataLine("role: assistant") \o <<"\n">> \o DataLine("content: <div>") \o <<"\n">>
        \o DataLine("content: Hello") \o <<"\n">> \o DataLine("content: </div>")
        \o <<"\n", "data: ", "[DONE]", "\n", "\n">>,
     DataLine("content: Hello") \o <<": keep-alive", "\n">> \o DataLine("content: (empty)")
        \o <<"data: ", "oops", "\n">> \o DataLine("no choices") \o DataLine("content: <div>"),
     DataLine("content: <div>") \o <<"data: ", " ", "[DONE]", " ", "\n">>
        \o DataLine("content: Hello"),
     DataLine("content: Hello") \o <<"data: ", "{", "content: <div>", "}">>,
     <<"event: message_start", "\n">> \o DataLine("message_start") \o <<"\n">>
        \o DataLine("text_delta: <div>") \o <<"\n">> \o DataLine("text_delta: Hello")
        \o DataLine("content: </div>")}

StreamInit ==
    /\ \E old \in {<<>>, <<"<p>", "old", "</p>">>} : tool = toolState("idle", old, Null)
    /\ \E provider \in {"openai", "anthropic"}, sent \in SseStreams :
        stream = [pc |-> "idle", provider |-> provider, sent |-> sent, wire |-> sent,
                  buffer |-> <<>>, lines |-> <<>>, yielded |-> <<>>]
    /\ SanOff
    /\ GenOff
    /\ InsOff
    /\ ScOff
    /\ AppOff
    /\ SessionOff

ToolDispatch(action) == tool' = toolReducer(tool, action)

\* generateSnippet up to the first read of the stream.
GenerateSnippet ==
    /\ stream.pc = "idle"
    /\ ToolDispatch(Dispatch("GENERATE_SNIPPET_START"))
    /\ stream' = [stream EXCEPT !.pc = "reading"]
    /\ UNCHANGED <<session, sanVars, genVars, insVars, scVars, appVars>>

\* reader.read() resolves with the next piece of the response, cut anywhere:
\* it is added to the buffer and the buffer is split into lines, of which
\* the last, possibly incomplete one stays in the buffer.
ReadArrives ==
    /\ stream.pc = "reading"
    /\ \E n \in 1..Len(stream.wire) :
        LET value == SubSeq(stream.wire, 1, n)
            pieces == split(stream.buffer \o value, <<>>)
        IN  stream' = [stream EXCEPT
                !.wire = SubSeq(@, n + 1, Len(@)),
                !.buffer = pieces[Len(pieces)],
                !.lines = SubSeq(pieces, 1, Len(pieces) - 1),
                !.pc = IF Len(pieces) > 1 THEN "lines" ELSE "reading"]
    /\ UNCHANGED <<tool, session, sanVars, genVars, insVars, scVars, appVars>>

\* The generator returns (done, or [DONE] read): the loop of generateSnippet
\* ends and its finally block dispatches GENERATE_SNIPPET_COMPLETE.
Returned == [stream EXCEPT !.pc = "done", !.lines = <<>>]

ReadEnds ==
    /\ stream.pc = "reading"
    /\ stream.wire = <<>>
    /\ ToolDispatch(Dispatch("GENERATE_SNIPPET_COMPLETE"))
    /\ stream' = Returned
    /\ UNCHANGED <<session, sanVars, genVars, insVars, scVars, appVars>>

\* reader.read() rejects: the error is caught, SET_ERROR and then
\* GENERATE_SNIPPET_COMPLETE are dispatched.
ReadFails ==
    /\ stream.pc = "reading"
    /\ tool' = toolReducer(toolReducer(tool,
                    DispatchWith("SET_ERROR", Word("Failed to generate HTML."))),
                 Dispatch("GENERATE_SNIPPET_COMPLETE"))
    /\ stream' = [stream EXCEPT !.pc = "failed", !.lines = <<>>]
    /\ UNCHANGED <<session, sanVars, genVars, insVars, scVars, appVars>>

\* One turn of the loop over the lines: return at [DONE], yield the chunk of
\* a data line, pass over every other line.
NextLine ==
    /\ stream.pc = "lines"
    /\ LET line == stream.lines[1]
           chunk == chunkOfLine(stream.provider, line)
           rest == Tail(stream.lines)
       IN  IF isDone(line)
           THEN ToolDispatch(Dispatch("GENERATE_SNIPPET_COMPLETE")) /\ stream' = Returned
           ELSE /\ tool' = tool
                /\ stream' = [stream EXCEPT
                        !.lines = rest,
                        !.yielded = IF chunk = <<>> THEN @ ELSE Append(@, chunk),
                        !.pc = IF chunk # <<>> THEN "yielded"
                               ELSE IF rest = <<>> THEN "reading" ELSE "lines"]
    /\ UNCHANGED <<session, sanVars, genVars, insVars, scVars, appVars>>

\* The body of for await: the chunk just yielded is dispatched.
ChunkDispatched ==
    /\ stream.pc = "yielded"
    /\ ToolDispatch(DispatchWith("GENERATE_SNIPPET_CHUNK", stream.yielded[Len(stream.yielded)]))
    /\ stream' = [stream EXCEPT !.pc = IF stream.lines = <<>> THEN "reading" ELSE "lines"]
    /\ UNCHANGED <<session, sanVars, genVars, insVars, scVars, appVars>>

StreamNext ==
    \/ GenerateSnippet
    \/ ReadArrives
    \/ ReadEnds
    \/ ReadFails
    \/ NextLine
    \/ ChunkDispatched

SpecStream == StreamInit /\ [][StreamNext]_vars

\* The lines of the whole response that end with a line break.
SentLines == LET pieces == split(stream.sent, <<>>) IN SubSeq(pieces, 1, Len(pieces) - 1)

IsArrayIndexKey(k) == IsDigit(k)

PointsOf(tally, k) ==
    IF \E i \in 1..Len(tally) : tally[i][1] = k
    THEN tally[CHOOSE i \in 1..Len(tally) : tally[i][1] = k][2]
    ELSE 0

\* Where a new key goes among the entries.
RECURSIVE WithNewKey(_, _)
WithNewKey(tally, k) ==
    IF tally = <<>> THEN <<(<<k, 1>>)>>
    ELSE IF IsArrayIndexKey(k)
            /\ (~IsArrayIndexKey(tally[1][1]) \/ DigitVal(k) < DigitVal(tally[1][1]))
         THEN <<(<<k, 1>>)>> \o tally
         ELSE <<tally[1]>> \o WithNewKey(Tail(tally), k)

\* personalityScores[pointsFor] = (personalityScores[pointsFor] || 0) + 1
addPoint(tally, pointsFor) ==
    IF \E i \in 1..Len(tally) : tally[i][1] = pointsFor
    THEN [i \in 1..Len(tally) |->
            IF tally[i][1] = pointsFor THEN <<pointsFor, tally[i][2] + 1>> ELSE tally[i]]
    ELSE WithNewKey(tally, pointsFor)

\* Object.entries(personalityScores).sort((a, b) => b[1] - a[1])[0]?.[0]:
\* the sort is stable, so the first of the entries with the most points.
winnerIdOf(tally) ==
    IF tally = <<>> THEN Undef
    ELSE Word(tally[CHOOSE i \in 1..Len(tally) :
                    /\ \A j \in 1..Len(tally) : tally[j][2] <= tally[i][2]
                    /\ \A j \in 1..(i - 1) : tally[j][2] < tally[i][2]][1])

findOutcomeFirst(outcomes, winnerId) ==
    IF outcomes # <<>> THEN outcomes[1] ELSE Undef

\* outcomes.find(o => o.id === winnerId)
findOutcome(outcomes, winnerId) ==
    IF \E i \in 1..Len(outcomes) : Get(outcomes[i], "id") = winnerId
    THEN outcomes[CHOOSE i \in 1..Len(outcomes) :
                    /\ Get(outcomes[i], "id") = winnerId
                    /\ \A j \in 1..(i - 1) : Get(outcomes[j], "id") # winnerId]
    ELSE Undef

ResultsAreIn == Str(<<"Results Are In!">>)

UniquePersonality == Str(<<"You have a unique personality type.">>)

PersonalityScreen(where, threw, winnerId, title, description) ==
    [where |-> where, threw |-> threw, winnerId |-> winnerId,
     title |-> title, description |-> description]

\* QuizPreview.renderResults, personality branch: it runs only when
\* quizData.outcomes is there; otherwise title and description stay ''.
renderResultsPersonality(quizData, tally) ==
    IF Truthy(Get(quizData, "outcomes"))
    THEN LET winnerId == winnerIdOf(tally)
             finalOutcome == findOutcome(quizData.outcomes.a, winnerId)
         IN  PersonalityScreen("preview", FALSE, winnerId,
                               Or(Get(finalOutcome, "title"), ResultsAreIn),
                               Or(Get(finalOutcome, "description"), UniquePersonality))
    ELSE PersonalityScreen("preview", FALSE, Undef, Str(<<>>), Str(<<>>))

\* showResults of the static page, personality branch: quizData.outcomes is
\* dereferenced without a test, a TypeError when it is missing.
showResultsPersonality(quizData, tally) ==
    IF Get(quizData, "outcomes").t \in {"undefined", "null"}
    THEN PersonalityScreen("static", TRUE, winnerIdOf(tally), Str(<<>>), Str(<<>>))
    ELSE LET winnerId == winnerIdOf(tally)
             finalOutcome == findOutcome(quizData.outcomes.a, winnerId)
         IN  PersonalityScreen("static", FALSE, winnerId,
                               Or(Get(finalOutcome, "title"), ResultsAreIn),
                               Or(Get(finalOutcome, "description"), UniquePersonality))

\* Personality quizzes as they reach the UI: two options a question, the ids
\* words or numerals; the outcomes missing, empty, matching or not.
OptionPairs ==
    {<<"strategist", "explorer">>, <<"explorer", "strategist">>, <<"2", "1">>, <<"1", "2">>}

PersonalityQuestions ==
    UNION {[1..n -> OptionPairs] : n \in 1..MaxQuestions}

Outcome(id) ==
    Obj([id |-> Word(id), title |-> Word("The " \o id),
         description |-> Word("You are the " \o id)])

OutcomeArrays ==
    {Undef, Arr(<<>>), Arr(<<Outcome("strategist"), Outcome("explorer")>>),
     Arr(<<Outcome("1"), Outcome("2")>>), Arr(<<Outcome("guardian")>>)}

PersonalityQuiz(pairs, outcomes) ==
    [t |-> "object", quizType |-> PERSONALITY,
     questions |-> Arr([i \in 1..Len(pairs) |->
        Obj([questionText |-> Word("Which one are you?"),
             options |-> Arr(<<Obj([text |-> Word("A"), pointsFor |-> Word(pairs[i][1])]),
                               Obj([text |-> Word("B"), pointsFor |-> Word(pairs[i][2])])>>)])]),
     outcomes |-> outcomes]

\* The state of QuizPreview and of the page's script at the first question.
\* answers is the history of the clicks on options since then.
FirstQuestion(where, quizData) ==
    [pc |-> "question", where |-> where, quizData |-> quizData,
     currentQuestionIndex |-> 0, score |-> 0, personalityScores |-> <<>>,
     picked |-> <<>>, answers |-> <<>>, screen |-> NoScreen]

SessionInit ==
    /\ \E pairs \in PersonalityQuestions, outcomes \in OutcomeArrays,
          where \in {"preview", "static"} :
        session = FirstQuestion(where, PersonalityQuiz(pairs, outcomes))
    /\ SanOff
    /\ GenOff
    /\ InsOff
    /\ ScOff
    /\ AppOff
    /\ StreamOff

scoreAfterAnyAnswer(score, selectedIndex, question) == score + 1

\* if (selectedIndex === question.correctAnswerIndex) score++
scoreAfter(score, selectedIndex, question) ==
    IF Get(question, "correctAnswerIndex") = Num(selectedIndex, 0) THEN score + 1 ELSE score

\* handleAnswerSelect / handleOptionClick: an option of the current question
\* is clicked; the options are then disabled until the next question.
AnswerSelected ==
    /\ session.pc = "question"
    /\ LET question == session.quizData.questions.a[session.currentQuestionIndex + 1]
       IN  \E index \in 1..Len(question.options.a) :
            session' =
                IF IsKnowledgeCheck(session.quizData)
                THEN [session EXCEPT
                        !.pc = "answered",
                        !.score = scoreAfter(@, index - 1, question),
                        !.answers = Append(@, [question |-> session.currentQuestionIndex,
                                               selected |-> index - 1])]
                ELSE [session EXCEPT
                        !.pc = "answered",
                        !.personalityScores =
                            addPoint(@, question.options.a[index].pointsFor.s[1]),
                        !.picked = Append(@, question.options.a[index].pointsFor.s[1]),
                        !.answers = Append(@, [question |-> session.currentQuestionIndex,
                                               selected |-> index - 1])]
    /\ UNCHANGED <<sanVars, genVars, insVars, scVars, appVars, tool, stream>>

hasNextQuestionNever(currentQuestionIndex, quizData) == FALSE

\* currentQuestionIndex < quizData.questions.length - 1
hasNextQuestion(currentQuestionIndex, quizData) ==
    currentQuestionIndex < Len(quizData.questions.a) - 1

\* The results screen of either quiz type.
ResultsScreen(where, quizData, score, tally) ==
    IF IsKnowledgeCheck(quizData)
    THEN IF where = "preview" THEN renderResults(quizData, score)
         ELSE showResults(quizData, score)
    ELSE IF where = "preview" THEN renderResultsPersonality(quizData, tally)
         ELSE showResultsPersonality(quizData, tally)

\* handleNext / handleNextClick, on the button that an answer brings up: the
\* next question, or the results.  The page's script counts the index up
\* before it decides, the preview leaves it at the last question.
NextClicked ==
    /\ session.pc = "answered"
    /\ IF hasNextQuestion(session.currentQuestionIndex, session.quizData)
       THEN session' = [session EXCEPT !.pc = "question", !.currentQuestionIndex = @ + 1]
       ELSE session' = [session EXCEPT
                !.pc = "results",
                !.currentQuestionIndex = IF session.where = "static" THEN @ + 1 ELSE @,
                !.screen = ResultsScreen(session.where, session.quizData, session.score,
                                         session.personalityScores)]
    /\ UNCHANGED <<sanVars, genVars, insVars, scVars, appVars, tool, stream>>

\* handleRestart / restartQuiz
RestartClicked ==
    /\ session.pc = "results"
    /\ session' = FirstQuestion(session.where, session.quizData)
    /\ UNCHANGED <<sanVars, genVars, insVars, scVars, appVars, tool, stream>>

SessionNext == AnswerSelected \/ NextClicked \/ RestartClicked

SpecPersonality == SessionInit /\ [][SessionNext]_vars

\* How often key k was chosen, and where it was chosen first.
TimesPicked(k) == Cardinality({i \in 1..Len(session.picked) : session.picked[i] = k})

FirstPicked(k) ==
    CHOOSE i \in 1..Len(session.picked) :
        session.picked[i] = k /\ \A j \in 1..(i - 1) : session.picked[j] # k

PickedKeys == {session.picked[i] : i \in 1..Len(session.picked)}

\* C19 (as stated): every answer adds one point to the tally of the chosen
\* option's pointsFor; the winner has the most points, and of the keys that
\* tie for the most points it is the one that was chosen first.
C19_TallyAndWinner ==
    session.pc # "off" =>
        /\ \A k \in PickedKeys \cup {"explorer", "1"} :
                PointsOf(session.personalityScores, k) = TimesPicked(k)
        /\ session.picked # <<>> =>
            LET w == winnerIdOf(session.personalityScores).s[1]
            IN  /\ w \in PickedKeys
                /\ \A k \in PickedKeys :
                    \/ TimesPicked(k) < TimesPicked(w)
                    \/ TimesPicked(k) = TimesPicked(w) /\ FirstPicked(w) <= FirstPicked(k)

\* The quiz has its outcomes, and the winning key of the tally is the id of
\* none of them.
NoOutcomeMatches(tally) ==
    /\ Get(session.quizData, "outcomes").t = "array"
    /\ \A i \in 1..Len(session.quizData.outcomes.a) :
            Get(session.quizData.outcomes.a[i], "id") # winnerIdOf(tally)

GenericResult(screen) ==
    /\ ~screen.threw
    /\ screen.title = ResultsAreIn
    /\ screen.description = UniquePersonality

C21_NotFoundIsSuccess ==
    /\ \A i \in 1..Len(flights) :
            flights[i].status # "none" =>
                /\ flights[i].status \in {"200", "404"}
                /\ flights[i].op = "deleteSnippet" /\ flights[i].pc = "fetchPosts"
    /\ ended.status = "404" =>
            /\ ended.pc = "fetchPosts"
            /\ ended.how = "success" =>
                    /\ app.posts = fetchPosts(wpPosts)
                    /\ app.deletingPostId = Null
    /\ ended.status \notin {"none", "200", "404"} =>
            /\ ended.op = "deleteSnippet" /\ ended.pc = "deleteCfTool"
            /\ ended.how = "failure"
            /\ app.error = Word("Failed to delete tool post.")

\* A deletion whose tool post was already gone has completed.
C21_Witness ==
    /\ ended.op = "deleteSnippet" /\ ended.how = "success"
    /\ ended.status = "404"
    /\ ended.made = <<"updatePost">>
    /\ app.deletingPostId = Null

(* ------------------------- heading-based placement ---------------------- *)
\* The rendered content of a post: up to MaxNodes blocks, headings of three
\* levels, paragraphs and rules among them.
SpliceBlocks ==
    {<<"<p>", "Body", "</p>">>, <<"<h2>", "Summary", "</h2>">>,
     <<"<h3>", "Detail", "</h3>">>, <<"<h4>", "Note", "</h4>">>, <<"<hr>">>}

RECURSIVE Flat(_)
Flat(blocks) == IF blocks = <<>> THEN <<>> ELSE Head(blocks) \o Flat(Tail(blocks))

SpliceContents ==
    {Flat(blocks) : blocks \in UNION {[1..n -> SpliceBlocks] : n \in 0..MaxNodes}}

SpliceInit ==
    /\ postContent \in SpliceContents
    /\ snippet \in {shortcodeOf(newToolId) : newToolId \in 1..MaxTools}
    /\ inserter = "none"
    /\ decision = NotAsked
    /\ newContent = <<>>
    /\ insPc = "created"
    /\ SanOff
    /\ GenOff
    /\ ScOff
    /\ AppOff
    /\ StreamOff
    /\ SessionOff

\* insertSnippet between createCfTool and updatePost: the new content.
SmartInsertion ==
    /\ insPc = "created"
    /\ inserter' = "insertSnippet"
    /\ newContent' = smartInsertion(postContent, snippet)
    /\ insPc' = "done"
    /\ UNCHANGED <<postContent, snippet, decision, notInsVars>>

SpliceNext == SmartInsertion

SpecSplice == SpliceInit /\ [][SpliceNext]_vars

\* Where the claim puts the shortcode: before the opening tag of the last
\* h2/h3 heading, or at the end when no h2/h3 is closed in the content.
HeadingOpenings == {i \in 1..Len(postContent) : postContent[i] \in {"<h2>", "<h3>"}}

HasClosedHeading == \E i \in 1..Len(postContent) : postContent[i] \in {"</h2>", "</h3>"}

SplicePosition ==
    IF HasClosedHeading
    THEN (CHOOSE i \in HeadingOpenings : \A j \in HeadingOpenings : j <= i) - 1
    ELSE Len(postContent)

SplicedText == <<"\n", "\n">> \o snippet \o <<"\n", "\n">>

\* C22: the new content of insertSnippet is the original content with
\* "\n\n" + shortcode + "\n\n" put in at one position, before the opening
\* tag of the last h2/h3 heading or at the end when there is none; taking
\* the inserted text out gives the original content back.
C22_PureSplice ==
    insPc = "done" =>
        /\ Len(newContent) = Len(postContent) + Len(SplicedText)
        /\ SubSeq(newContent, SplicePosition + 1, SplicePosition + Len(SplicedText))
                = SplicedText
        /\ SubSeq(newContent, 1, SplicePosition)
                \o SubSeq(newContent, SplicePosition + Len(SplicedText) + 1, Len(newContent))
                = postContent

\* The shortcode was put before a heading that other blocks follow.
C22_Witness ==
    /\ insPc = "done"
    /\ HasClosedHeading
    /\ 0 < SplicePosition /\ SplicePosition + 3 < Len(postContent)
    /\ newContent[SplicePosition + Len(SplicedText) + 1] = "<h3>"

\* The deletions in flight and the one that just ended, with what each has
\* behind it.
DeletionsAt(pc) ==
    {flights[i] : i \in {j \in 1..Len(flights) :
                            flights[j].op = "deleteSnippet" /\ flights[j].pc = pc}}

ToolStepDone(f) ==
    IF Truthy(f.toolId) THEN f.status \in {"200", "404"} ELSE f.status = "none"

\* C23: deleteSnippet writes the post content first; deleteCfTool is awaited
\* only after that write succeeded and only with a toolId; the refresh comes
\* after both, and DELETE_SNIPPET_COMPLETE is dispatched only after the
\* write, the deletion of the tool (when there is a toolId) and the refresh
\* succeeded.
C23_DeleteOrder ==
    /\ \A f \in DeletionsAt("updatePost") : f.made = <<>> /\ f.status = "none"
    /\ \A f \in DeletionsAt("deleteCfTool") :
            f.made = <<"updatePost">> /\ f.status = "none" /\ Truthy(f.toolId)
    /\ \A f \in DeletionsAt("fetchPosts") :
            f.made # <<>> /\ f.made[1] = "updatePost" /\ ToolStepDone(f)
    /\ (ended.op = "deleteSnippet" /\ ended.how = "success") =>
            /\ ended.pc = "fetchPosts"
            /\ ended.made # <<>> /\ ended.made[1] = "updatePost"
            /\ ToolStepDone(ended)
            /\ app.posts = fetchPosts(wpPosts)

\* A deletion without a toolId has completed: no tool post was asked for.
C23_Witness ==
    /\ ended.op = "deleteSnippet" /\ ended.how = "success"
    /\ ~Truthy(ended.toolId)
    /\ ended.made = <<"updatePost">> /\ ended.status = "none"

\* C24 (as stated): when deleteSnippet has completed, every tool post named
\* by a shortcode it took out of the post's content is deleted.
C24_NoToolLeftBehind ==
    (ended.op = "deleteSnippet" /\ ended.how = "success") =>
        ended.removed \cap wpTools.live = {}

\* C27: on the Generate step a post is selected, and a deletion that
\* completes while the Generate step is shown leaves the selected post alone.
C27_GenerateHasPost ==
    /\ [](app.currentStep = "Generate" => app.selectedPost # Null)
    /\ [][(app.currentStep = "Generate" /\ ended'.op = "deleteSnippet"
                /\ ended'.how = "success") =>
            /\ app'.currentStep = "Generate"
            /\ app'.selectedPost = app.selectedPost
            /\ app'.selectedPost # Null]_vars

\* A deletion has just completed under the Generate step.
C27_Witness ==
    /\ ended.op = "deleteSnippet"
    /\ ended.how = "success"
    /\ app.currentStep = "Generate"
    /\ app.selectedPost # Null

\* C28: filteredPosts is the sub-sequence of posts whose title contains
\* postSearchQuery, case-insensitively and in the same order.
C28_FilteredBySearch ==
    app.filteredPosts = filterByTitle(app.posts, app.postSearchQuery)

\* C29: a provider whose status is 'valid' holds the key that validateApiKey
\* accepted, and connectToWordPress is started only with such a key.
C29_ValidKeyIsCurrent ==
    /\ \A p \in Providers :
            app.apiValidationStatuses[p] = "valid" => app.apiKeys[p] = GoodKey
    /\ (ended.op = "connectToWordPress" /\ ended.how = "called") =>
            app.apiKeys[app.selectedProvider] = GoodKey

\* C30: 'Start Over' puts every field back to its initial value except
\* apiKeys, apiValidationStatuses, selectedProvider, openRouterModel and
\* theme, and nothing that completes afterwards changes that: on the
\* Configure step wpConfig, selectedPost and quizData are null and posts is
\* empty.
C30_ResetIsFinal ==
    /\ [][(app.currentStep # "Configure" /\ app'.currentStep = "Configure") =>
            app' = [initialState EXCEPT
                        !.apiKeys = app.apiKeys,
                        !.apiValidationStatuses = app.apiValidationStatuses,
                        !.selectedProvider = app.selectedProvider,
                        !.openRouterModel = app.openRouterModel,
                        !.theme = app.theme]]_vars
    /\ [](app.currentStep = "Configure" =>
            /\ app.wpConfig = Null
            /\ app.selectedPost = Null
            /\ app.quizData = Null
            /\ app.posts = <<>>)

(* --------------------------- the quiz session --------------------------- *)
\* Knowledge-check quizzes of up to MaxQuestions questions with two or three
\* options, and personality quizzes, as QuizPreview and the page get them.
SessionQuestions ==
    {KcQuestion(Word("Q"), Options(2), Num(0, 0)),
     KcQuestion(Word("Q"), Options(2), Num(1, 0)),
     KcQuestion(Word("Q"), Options(3), Num(2, 0))}

SessionQuizzes ==
    {RawQuiz(Word("Quiz"), KNOWLEDGE_CHECK, Arr(questions),
             Arr(<<ExpertTier, NoviceTier>>), Undef) :
        questions \in UNION {[1..n -> SessionQuestions] : n \in 1..MaxQuestions}}
    \cup {PersonalityQuiz(pairs, Arr(<<Outcome("strategist"), Outcome("explorer")>>)) :
            pairs \in {p \in PersonalityQuestions : p[1][1] = "strategist"}}

QuizSessionInit ==
    /\ \E quizData \in SessionQuizzes, where \in {"preview", "static"} :
        session = FirstQuestion(where, quizData)
    /\ SanOff
    /\ GenOff
    /\ InsOff
    /\ ScOff
    /\ AppOff
    /\ StreamOff

SpecQuizSession == QuizSessionInit /\ [][SessionNext]_vars

\* The answers given so far that hit the correct option.
CorrectAnswers ==
    {i \in 1..Len(session.answers) :
        Get(session.quizData.questions.a[session.answers[i].question + 1],
            "correctAnswerIndex") = Num(session.answers[i].selected, 0)}

KnowledgeCheckSession == session.pc # "off" /\ IsKnowledgeCheck(session.quizData)

\* C25: in a knowledge-check session every question is answered at most
\* once, the score is the number of answers that selected correctAnswerIndex
\* (one more for such an answer, the same for any other), 0 <= score <=
\* answers so far <= number of questions, and restart gives question 0,
\* score 0 and an empty tally.
C25_ScoreInvariant ==
    /\ [](KnowledgeCheckSession =>
            /\ \A i, j \in 1..Len(session.answers) :
                    session.answers[i].question = session.answers[j].question => i = j
            /\ session.score = Cardinality(CorrectAnswers)
            /\ 0 <= session.score
            /\ session.score <= Len(session.answers)
            /\ Len(session.answers) <= Len(session.quizData.questions.a))
    /\ [][(KnowledgeCheckSession /\ Len(session'.answers) = Len(session.answers) + 1) =>
            session'.score \in {session.score, session.score + 1}]_vars
    /\ [][(KnowledgeCheckSession /\ session.pc = "results" /\ session'.pc # "results") =>
            /\ session'.pc = "question"
            /\ session'.currentQuestionIndex = 0
            /\ session'.score = 0
            /\ session'.personalityScores = <<>>
            /\ session'.answers = <<>>]_vars

\* Two questions answered, one of them correctly, and the results shown.
C25_Witness ==
    /\ KnowledgeCheckSession
    /\ session.pc = "results"
    /\ Len(session.answers) = 2
    /\ session.score = 1
    /\ session.answers[1].selected
            # session.quizData.questions.a[1].correctAnswerIndex.m

\* C26: the questions are answered in order, 'next' is taken only from an
\* answered question and moves on by one, and the results are shown only by
\* 'next' from the last question, when every question has its answer.
C26_ResultsAfterAllAnswered ==
    /\ [](session.pc # "off" =>
            /\ \A i \in 1..Len(session.answers) : session.answers[i].question = i - 1
            /\ session.pc = "results" =>
                    Len(session.answers) = Len(session.quizData.questions.a))
    /\ [][(session.pc # "off" /\ session.pc # "results"
                /\ session'.currentQuestionIndex # session.currentQuestionIndex) =>
            /\ session.pc = "answered"
            /\ session'.currentQuestionIndex = session.currentQuestionIndex + 1]_vars
    /\ [][(session.pc # "off" /\ session.pc # "results" /\ session'.pc = "results") =>
            /\ session.pc = "answered"
            /\ session.currentQuestionIndex = Len(session.quizData.questions.a) - 1]_vars

\* The results of a quiz of two questions, on the page.
C26_Witness ==
    /\ session.pc = "results"
    /\ session.where = "static"
    /\ Len(session.quizData.questions.a) = 2
    /\ Len(session.answers) = 2
    /\ session.currentQuestionIndex = 2

====
